---- MODULE Spec2Model ----
(***************************************************************************)
(* kaji-opencode-relay: the synchronized state store (SyncStore), the      *)
(* dispatch router (HeadlessRouter) and the connection manager             *)
(* (HeadlessClient), modelled as state machines.                           *)
(*                                                                         *)
(* Identifiers are naturals: the code compares identifier strings with <   *)
(* and ===, and the order of naturals stands for that order.               *)
(***************************************************************************)
EXTENDS Integers, Sequences, FiniteSets, TLC

(***************************************************************************)
(* Bounds of the model                                                     *)
(***************************************************************************)

\* The per-session message cap. The source uses 100 (adapter.ts:417 and
\* adapter.ts:663); the model scales it down so that eviction is reachable.
MessageCap == 1

\* Number of store operations (processEvent calls, completed session.sync calls) in a run.
MaxSteps == 3
\* permission / question notifications of a behaviour
MaxRoundTrips == 2

\* HeadlessClient.batchInterval: config.batchInterval ?? 16 (client.ts:77),
\* scaled down to clock ticks.
BatchInterval == 2
\* clock ticks of a behaviour
MaxTicks == 2
\* connect() calls that pass the connected test
MaxConnects == 3
\* events the remote service produces
MaxEvents == 2
\* stream terminations and failed subscribe attempts the environment produces
MaxFailures == 1

\* Largest cumulative cost a message of the stream carries.
MaxCost == 2

\* Largest length of a part's text field (message.part.delta appends to it).
MaxText == 1

\* Largest count kept of the assistantMessageComplete notifications of a message.
MaxCompletions == 2

\* Largest number of prompt origins pending for a session.
MaxOrigins == 2

\* User-message notifications of a behaviour.
MaxNotifications == 3

\* Bootstrap calls of a behaviour, direct ones and those a reset starts.
MaxBootstraps == 2

\* Failed subscribe attempts and stream terminations of a reconnect behaviour.
MaxAttempts == 8

SessionIds == {1, 2}

\* the sessions session.sync is called for
SyncedSessionIds == {1}

\* Message identifiers are globally unique: session 1 owns 1..MessageCap+1,
\* session 2 owns MessageCap+2.
MessageIds == 1..(MessageCap + 2)

SessionOfMessage(m) == IF m <= MessageCap + 1 THEN 1 ELSE 2

MessageIdsOf(s) == {m \in MessageIds : SessionOfMessage(m) = s}

PartIds == {1, 2}

RequestIds == {1, 2}

AdapterIds == {"a", "b"}

None == "none"

(***************************************************************************)
(* State                                                                   *)
(***************************************************************************)
VARIABLES
    \* SyncStore.state (adapter.ts:60-85), the fields the handlers below touch
    session,            \* Session[]                          sorted by id
    message,            \* Record<sessionID, Message[]>
    part,               \* Record<messageID, Part[]>
    permission,         \* Record<sessionID, PermissionRequest[]>
    question,           \* Record<sessionID, QuestionRequest[]>
    todo,               \* Record<sessionID, Todo[]>
    session_status,     \* Record<sessionID, SessionStatus>
    session_cost,       \* Record<sessionID, number>
    session_tokens,     \* Record<sessionID, TokenSummary>
    derivedStatus,      \* Map<sessionID, DerivedSessionStatus>  (adapter.ts:111)
    fullSyncedSessions, \* Set<sessionID>                        (adapter.ts:112)
    syncInFlight,       \* session.sync calls suspended at their await
    \* what the last store operation did
    steps,              \* number of store operations so far
    threw,              \* the last processEvent call threw
    wellBehaved,        \* aggregates and status the last operation leaves with a well-behaved consumer
    lastEvicted,        \* message ids the last operation evicted by the cap
    removedMessages,    \* message ids removed or evicted and not upserted since
    completions,        \* assistantMessageComplete notifications emitted per message id
    observedCost,       \* per assistant message id, the largest cumulative cost a message.updated event carried
    lastStatus,         \* per session, the status of the last sessionStatus notification emitted
    state_status,       \* SyncState.status: "loading" | "partial" | "complete"
    status_notified,    \* the status of the latest status notification, None before any
    sdk,                \* this.sdk is set                      (adapter.ts:110)
    bootstraps,         \* the bootstrap calls, each with the step it is suspended at
    \* HeadlessRouter (router.ts:16-24)
    adapters,           \* ids of the registered consumers
    defaultAdapterId,
    sessionAdapters,    \* Map<sessionID, adapterID>
    roundTrips,         \* the permission / question round-trips, one per notification
    pendingPromptOrigins, \* Map<sessionID, adapterID[]>       (router.ts:21)
    idealOrigins,       \* the origins queued per session, one taken by every user-message notification
    promptsSince,       \* per session, the consumers that prompted since its last user-message notification
    lastInbound,        \* what the userMessage subscription did with the last notification
    toastCalls,         \* onToast calls per consumer for the last toast notification
    subscribed,         \* the store subscriptions of the router are in place (router.ts:20)
    lastCallback,       \* what the router did with the last fire-and-forget notification
    shutdownCalled,     \* shutdown() has run its loop over the unsubscribers
    \* HeadlessClient (client.ts:60-71) and its environment
    connected,
    loopActive,
    abortController,    \* id of the current AbortController, 0 for undefined
    aborted,            \* ids of the AbortControllers whose signal is aborted
    controllers,        \* number of AbortControllers created
    unsubscribe,        \* id of the event-source subscription held, 0 for undefined
    sdkSet,             \* this._sdk is set
    queue,
    timer,              \* due time of the pending flush timer, -1 for none
    lastFlush,
    now,                \* Date.now(), far from the initial lastFlush of 0
    useEvents,          \* config.events is configured
    connects,           \* number of connect() calls suspended at await resolveClient()
    loops,              \* the runSseLoop invocations
    subscriptions,      \* live handlers registered at the custom event source
    subscribeCalls,     \* number of sdk.event.subscribe calls
    sourceEvents,       \* number of events the remote service has produced
    received,           \* receipts: one per handleEvent call, in order
    delivered,          \* receipts delivered to subscribers, in order
    failures,           \* stream terminations and failed subscribe attempts so far
    signals,            \* the signals emitted by the client's latest step, in order
    rejected            \* number of connect() calls that rejected

bootVars == <<state_status, status_notified, sdk, bootstraps>>

storeVars == <<session, message, part, permission, question, todo, session_status,
               session_cost, session_tokens, derivedStatus, fullSyncedSessions,
               syncInFlight, steps, threw, wellBehaved, lastEvicted,
               removedMessages, completions, observedCost, lastStatus, bootVars>>

dispatchVars == <<pendingPromptOrigins, idealOrigins, promptsSince, lastInbound, toastCalls,
                  subscribed, lastCallback, shutdownCalled>>

routerVars == <<adapters, defaultAdapterId, sessionAdapters, roundTrips, dispatchVars>>

clientVars == <<connected, loopActive, abortController, aborted, controllers,
                unsubscribe, sdkSet, queue, timer, lastFlush, now, useEvents,
                connects, loops, subscriptions, subscribeCalls, sourceEvents,
                received, delivered, failures, signals,
                rejected>>

vars == <<storeVars, routerVars, clientVars>>

(***************************************************************************)
(* Sorted-collection utility                                               *)
(***************************************************************************)

\* Binary.search(array, id, item => item.id): { found, index }, index 0-based,
\* the insertion point when not found.
RECURSIVE BinarySearchLoop(_, _, _, _)
BinarySearchLoop(array, id, left, right) ==
    IF left > right
    THEN [found |-> FALSE, index |-> left]
    ELSE LET mid == (left + right) \div 2
             midId == array[mid + 1].id
         IN  IF midId = id THEN [found |-> TRUE, index |-> mid]
             ELSE IF midId < id THEN BinarySearchLoop(array, id, mid + 1, right)
             ELSE BinarySearchLoop(array, id, left, mid - 1)

BinarySearch(array, id) == BinarySearchLoop(array, id, 0, Len(array) - 1)

\* array.splice(index, 0, item)
SpliceInsert(array, index, item) ==
    SubSeq(array, 1, index) \o <<item>> \o SubSeq(array, index + 1, Len(array))

\* array.splice(index, 1)
SpliceRemove(array, index) ==
    SubSeq(array, 1, index) \o SubSeq(array, index + 2, Len(array))

\* Upsert with the search result ignored: the item is always appended
UpsertAppending(array, item) == Append(array, item)

\* the upsert every "asked" / "updated" case performs:
\*   if (found) array[index] = item  else array.splice(index, 0, item)
Upsert(array, item) ==
    LET result == BinarySearch(array, item.id)
    IN  IF result.found
        THEN [array EXCEPT ![result.index + 1] = item]
        ELSE SpliceInsert(array, result.index, item)

\* a removal that takes the first element without searching
RemoveFirst(array, id) == IF array = <<>> THEN array ELSE Tail(array)

\* the removal every "replied" / "removed" case performs:
\*   if (found) array.splice(index, 1)
Remove(array, id) ==
    LET result == BinarySearch(array, id)
    IN  IF result.found THEN SpliceRemove(array, result.index) ELSE array

\* record[key] ?? []
Get(record, key) == IF key \in DOMAIN record THEN record[key] ELSE <<>>

\* record[key] = value
Put(record, key, value) ==
    [k \in DOMAIN record \cup {key} |-> IF k = key THEN value ELSE record[k]]

\* delete record[key], for a set of keys
Delete(record, keys) == [k \in DOMAIN record \ keys |-> record[k]]

Ids(array) == {array[i].id : i \in 1..Len(array)}

StrictlySorted(array) == \A i \in 1..(Len(array) - 1) : array[i].id < array[i + 1].id

(***************************************************************************)
(* Entities                                                                *)
(***************************************************************************)

Session(id, compacting) == [id |-> id, compacting |-> compacting]

\* tokens: present is FALSE for a message without a tokens field
Tokens(i, o, r, cr, cw) ==
    [present |-> TRUE, input |-> i, output |-> o, reasoning |-> r,
     cacheRead |-> cr, cacheWrite |-> cw]

NoTokens ==
    [present |-> FALSE, input |-> 0, output |-> 0, reasoning |-> 0,
     cacheRead |-> 0, cacheWrite |-> 0]

ZeroSummary ==
    [input |-> 0, output |-> 0, reasoning |-> 0, cacheRead |-> 0, cacheWrite |-> 0]

TokenFields == {"input", "output", "reasoning", "cacheRead", "cacheWrite"}


UserMessage(id) ==
    [id |-> id, sessionID |-> SessionOfMessage(id), role |-> "user",
     completed |-> FALSE, cost |-> 0, tokens |-> NoTokens]

AssistantMessage(id, completed, cost, tokens) ==
    [id |-> id, sessionID |-> SessionOfMessage(id), role |-> "assistant",
     completed |-> completed, cost |-> cost, tokens |-> tokens]

\* cumulative (cost, tokens) pairs a message of the stream carries: nothing,
\* cost without tokens, and costs with either breakdown
CostInputs ==
    {<<0, NoTokens>>, <<1, NoTokens>>}
    \cup {<<k, Tokens(1, 0, 2, 0, 1)>> : k \in {1}}
    \cup {<<k, Tokens(0, 2, 0, 1, 0)>> : k \in {MaxCost}}

\* the message.updated payloads: every shape for the messages of session 1,
\* two shapes for the message of session 2
MessageInputs ==
    {UserMessage(id) : id \in MessageIdsOf(1)}
    \cup {AssistantMessage(id, c, k[1], k[2]) :
            id \in MessageIdsOf(1), c \in BOOLEAN, k \in CostInputs}
    \cup {UserMessage(id) : id \in MessageIdsOf(2)}
    \cup {AssistantMessage(id, TRUE, 1, Tokens(1, 0, 2, 0, 1)) : id \in MessageIdsOf(2)}

Part(id, messageID, text) ==
    [id |-> id, messageID |-> messageID, sessionID |-> SessionOfMessage(messageID),
     text |-> text]

Request(id, sessionID) == [id |-> id, sessionID |-> sessionID]

NoMessage ==
    [id |-> 0, sessionID |-> 0, role |-> "none", completed |-> FALSE,
     cost |-> 0, tokens |-> NoTokens]

Notification(kind, sessionID, id) == [kind |-> kind, sessionID |-> sessionID, id |-> id]

\* what a consumer callback does when the router invokes it
ConsumerBehaviours == {"ok", "throw", "reject"}

(***************************************************************************)
(* Dispatch router: consumer resolution                                    *)
(***************************************************************************)

\* before the first user-message notification
NoInbound == [n |-> 0, sessionID |-> None, target |-> None, head |-> None,
              expected |-> None, prompters |-> {}, invoked |-> {}, origin |-> None]

\* a resolution that falls back to a registered consumer when several are
\* registered and none is mapped or configured
GetAdapterAny(sessionID) ==
    LET mapped == IF sessionID \in DOMAIN sessionAdapters
                  THEN sessionAdapters[sessionID]
                  ELSE defaultAdapterId
    IN  IF mapped # None
        THEN IF mapped \in adapters THEN mapped ELSE None
        ELSE IF adapters # {}
             THEN CHOOSE a \in adapters : TRUE
             ELSE None

\* HeadlessRouter.getAdapter
GetAdapter(sessionID) ==
    LET mapped == IF sessionID \in DOMAIN sessionAdapters
                  THEN sessionAdapters[sessionID]
                  ELSE defaultAdapterId
    IN  IF mapped # None
        THEN IF mapped \in adapters THEN mapped ELSE None
        ELSE IF Cardinality(adapters) = 1
             THEN CHOOSE a \in adapters : TRUE
             ELSE None

\* The subscriptions of HeadlessRouter.subscribe that call an async consumer
\* callback and attach .catch to the returned promise: a synchronous throw of
\* the callback leaves the subscription, TypedEmitter.emit and the store
\* operation that emitted.
PromiseStyleKinds == {"assistantMessage", "assistantMessageComplete"}

HandlerThrows(kind, sessionID, beh) ==
    /\ subscribed
    /\ kind \in PromiseStyleKinds
    /\ GetAdapter(sessionID) # None
    /\ beh = "throw"

\* a round-trip of handlePermission / handleQuestion
RoundTrip(kind, sessionID, requestID, state, timerArmed, calls) ==
    [kind |-> kind, sessionID |-> sessionID, requestID |-> requestID,
     state |-> state, timerArmed |-> timerArmed, invoked |-> TRUE,
     calls |-> calls, answer |-> None, settledBy |-> None, unhandled |-> FALSE]

\* the reject reply of the kind: replyPermission(.., { reply: "reject" }) or
\* rejectQuestion(..)
RejectCall(kind) ==
    IF kind = "permission"
    THEN [op |-> "permission.reply", reply |-> "reject", message |-> None]
    ELSE [op |-> "question.reject"]

\* config.adapters in registration order: the iteration order of this.adapters
AdapterOrder == SelectSeq(<<"a", "b">>, LAMBDA a : a \in adapters)

\* before the first fire-and-forget notification
NoCallback == [kind |-> None, sessionID |-> 0, target |-> None, invoked |-> {},
               raised |-> FALSE]

\* before the first toast notification
NoToast == [calls |-> <<>>, throwers |-> {}]

\* a toast subscription without the try / catch: the loop ends at the first
\* consumer whose onToast throws
RECURSIVE ToastFanOutUncaught(_, _, _)
ToastFanOutUncaught(order, throwers, calls) ==
    IF order = <<>> THEN calls
    ELSE LET called == [calls EXCEPT ![Head(order)] = @ + 1]
         IN  IF Head(order) \in throwers THEN called
             ELSE ToastFanOutUncaught(Tail(order), throwers, called)

\* the "toast" subscription: onToast of every registered consumer in turn,
\* what a consumer throws is caught and logged
RECURSIVE ToastFanOut(_, _, _)
ToastFanOut(order, throwers, calls) ==
    IF order = <<>> THEN calls
    ELSE ToastFanOut(Tail(order), throwers, [calls EXCEPT ![Head(order)] = @ + 1])

\* withTimeout with the timer never armed
WithoutTimer(kind, sessionID, requestID) ==
    RoundTrip(kind, sessionID, requestID, "waiting", FALSE, <<>>)

\* HeadlessRouter.withTimeout: the race of the consumer's promise and a timer
WithTimeout(kind, sessionID, requestID) ==
    RoundTrip(kind, sessionID, requestID, "waiting", TRUE, <<>>)

\* handlePermission / handleQuestion that hand every request to a consumer
StartRoundTripWaiting(kind, sessionID, requestID, beh) ==
    WithTimeout(kind, sessionID, requestID)

\* handlePermission / handleQuestion up to their first suspension: no
\* consumer resolved, the consumer's handler threw synchronously, or the
\* handler returned a promise and withTimeout armed its timer
StartRoundTrip(kind, sessionID, requestID, beh) ==
    LET adapter == GetAdapter(sessionID)
    IN  IF adapter = None
        THEN [RoundTrip(kind, sessionID, requestID, "fallbackCall", FALSE,
                        <<RejectCall(kind)>>)
                 EXCEPT !.settledBy = "noAdapter", !.invoked = FALSE]
        ELSE IF beh = "throw"
        THEN [RoundTrip(kind, sessionID, requestID, "fallbackCall", FALSE,
                        <<RejectCall(kind)>>) EXCEPT !.settledBy = "throw"]
        ELSE WithTimeout(kind, sessionID, requestID)

(***************************************************************************)
(* State store: queries and helpers                                        *)
(***************************************************************************)

\* getSessionStatus with the role test left out: a last user message counts
\* as an assistant message without completion timestamp only if it has none
GetSessionStatusWithoutRole(sessions, messages, sessionID) ==
    LET match == BinarySearchLoop(sessions, sessionID, 0, Len(sessions) - 1)
    IN  IF ~match.found THEN "idle"
        ELSE IF sessions[match.index + 1].compacting THEN "compacting"
        ELSE "idle"

\* SyncStore.getSessionStatus, over a session list and a message table
GetSessionStatus(sessions, messages, sessionID) ==
    LET match == BinarySearch(sessions, sessionID)
    IN  IF ~match.found THEN "idle"
        ELSE IF sessions[match.index + 1].compacting THEN "compacting"
        ELSE LET list == Get(messages, sessionID)
             IN  IF Len(list) = 0 THEN "idle"
                 ELSE IF list[Len(list)].role = "user" THEN "working"
                 ELSE IF list[Len(list)].completed THEN "idle"
                 ELSE "working"

\* SyncStore.updateDerivedStatus: the new cache and the notification emitted
UpdateDerivedStatus(derived, sessions, messages, sessionID) ==
    LET next == GetSessionStatus(sessions, messages, sessionID)
    IN  IF sessionID \in DOMAIN derived /\ derived[sessionID] = next
        THEN [derived |-> derived, emits |-> <<>>]
        ELSE [derived |-> Put(derived, sessionID, next),
              emits |-> <<Notification("sessionStatus", sessionID, 0)>>]

\* the sessionStatus notifications a store operation emits, as the last
\* status emitted per session: one for every session whose cache entry the
\* operation set
StatusEmitted(derived) ==
    LET set == {s \in DOMAIN derived :
                   s \notin DOMAIN derivedStatus \/ derived[s] # derivedStatus[s]}
    IN  [s \in DOMAIN lastStatus \cup set |->
            IF s \in set THEN derived[s] ELSE lastStatus[s]]

\* Math.max(0, (curr ?? 0) - (prev ?? 0))
Delta(curr, prev) == IF curr - prev > 0 THEN curr - prev ELSE 0

\* SyncStore.accumulateCost: the new aggregates and the notification emitted
AccumulateCost(current, previous, costs, tokens) ==
    IF current.role # "assistant" \/ (current.cost = 0 /\ ~current.tokens.present)
    THEN [cost |-> costs, tokens |-> tokens, emits |-> <<>>]
    ELSE LET sessionID == current.sessionID
             costDelta == current.cost - previous.cost
             existingCost == IF sessionID \in DOMAIN costs THEN costs[sessionID] ELSE 0
             existing == IF sessionID \in DOMAIN tokens THEN tokens[sessionID]
                         ELSE ZeroSummary
             added == [f \in TokenFields |->
                          existing[f] + Delta(current.tokens[f], previous.tokens[f])]
         IN  [cost |-> IF costDelta > 0
                       THEN Put(costs, sessionID, existingCost + costDelta)
                       ELSE costs,
              tokens |-> IF current.tokens.present
                         THEN Put(tokens, sessionID, added)
                         ELSE tokens,
              emits |-> <<Notification("sessionCost", sessionID, 0)>>]

\* EnforceCap with the loop left out
EnforceCapKeepingAll(messages, evicted) == [messages |-> messages, evicted |-> evicted]

\* EnforceCap with pop in place of shift: the last message goes
RECURSIVE EnforceCapDroppingLast(_, _)
EnforceCapDroppingLast(messages, evicted) ==
    IF Len(messages) > MessageCap
    THEN EnforceCapDroppingLast(SubSeq(messages, 1, Len(messages) - 1),
                                evicted \cup {messages[Len(messages)].id})
    ELSE [messages |-> messages, evicted |-> evicted]

\* while (messages.length > 100) { oldest = messages.shift(); delete part[oldest.id] }
RECURSIVE EnforceCap(_, _)
EnforceCap(messages, evicted) ==
    IF Len(messages) > MessageCap
    THEN EnforceCap(Tail(messages), evicted \cup {Head(messages).id})
    ELSE [messages |-> messages, evicted |-> evicted]

\* the evicted ids, each with whether the store held a part list for it
Evictions(ids) == {[id |-> m, hadParts |-> m \in DOMAIN part] : m \in ids}

\* SyncStore.emitAssistantMessage: the notifications the store emits for an upsert
AssistantMessageEmits(current, previous) ==
    IF current.role # "assistant" THEN <<>>
    ELSE LET wasComplete == previous.role = "assistant" /\ previous.completed
         IN  <<Notification("assistantMessage", current.sessionID, current.id)>>
             \o (IF current.completed /\ ~wasComplete
                 THEN <<Notification("assistantMessageComplete", current.sessionID, current.id)>>
                 ELSE <<>>)

\* SyncStore.getMessage
GetMessage(sessionID, messageID) ==
    IF sessionID \notin DOMAIN message THEN NoMessage
    ELSE LET match == BinarySearch(message[sessionID], messageID)
         IN  IF match.found THEN message[sessionID][match.index + 1] ELSE NoMessage

\* SyncStore.emitAssistantMessageFromPart
AssistantMessageFromPartEmits(sessionID, messageID) ==
    LET msg == GetMessage(sessionID, messageID)
    IN  IF msg.role # "assistant" THEN <<>>
        ELSE <<Notification("assistantMessage", sessionID, messageID)>>
             \o (IF msg.completed
                 THEN <<Notification("assistantMessageComplete", sessionID, messageID)>>
                 ELSE <<>>)

\* TypedEmitter.emit of a list of notifications to the router's subscriptions:
\* the notifications up to and including the first whose handler throws
RECURSIVE Dispatch(_, _)
Dispatch(notifications, beh) ==
    IF notifications = <<>> THEN [emitted |-> <<>>, threw |-> FALSE]
    ELSE LET head == Head(notifications)
         IN  IF HandlerThrows(head.kind, head.sessionID, beh)
             THEN [emitted |-> <<head>>, threw |-> TRUE]
             ELSE LET rest == Dispatch(Tail(notifications), beh)
                  IN  [emitted |-> <<head>> \o rest.emitted, threw |-> rest.threw]

\* the consumer behaviours that matter for a list of notifications
BehavioursFor(notifications) ==
    IF \E i \in 1..Len(notifications) : notifications[i].kind \in PromiseStyleKinds
    THEN ConsumerBehaviours
    ELSE {"ok"}

\* the assistantMessageComplete notifications counted per message id
RecordCompletions(emitted) ==
    LET complete == {i \in 1..Len(emitted) : emitted[i].kind = "assistantMessageComplete"}
        ids == {emitted[i].id : i \in complete}
        Count(m) == Cardinality({i \in complete : emitted[i].id = m})
        Old(m) == IF m \in DOMAIN completions THEN completions[m] ELSE 0
    IN  [m \in DOMAIN completions \cup ids |->
            IF Old(m) + Count(m) > MaxCompletions THEN MaxCompletions
            ELSE Old(m) + Count(m)]

Aggregates(cost, tokens, derived) == [cost |-> cost, tokens |-> tokens, derived |-> derived]

(***************************************************************************)
(* State store: SyncStore.processEvent, one action per event kind          *)
(***************************************************************************)

\* what every processEvent case that touches neither messages nor aggregates leaves
QuietStep ==
    /\ steps < MaxSteps
    /\ steps' = steps + 1
    /\ UNCHANGED bootVars
    /\ threw' = FALSE
    /\ lastEvicted' = {}
    /\ UNCHANGED <<removedMessages, fullSyncedSessions, syncInFlight, completions, observedCost>>

\* case "permission.asked"
PermissionAsked ==
    \E sessionID \in SessionIds, id \in RequestIds, beh \in ConsumerBehaviours :
        /\ Len(roundTrips) < MaxRoundTrips
        /\ QuietStep
        /\ permission' = Put(permission, sessionID,
                             IF sessionID \in DOMAIN permission
                             THEN Upsert(permission[sessionID], Request(id, sessionID))
                             ELSE <<Request(id, sessionID)>>)
        /\ roundTrips' = IF subscribed
                         THEN Append(roundTrips, StartRoundTrip("permission", sessionID, id, beh))
                         ELSE roundTrips
        /\ wellBehaved' = Aggregates(session_cost, session_tokens, derivedStatus)
        /\ UNCHANGED <<session, message, part, question, todo, session_status,
                       session_cost, session_tokens, derivedStatus, lastStatus>>
        /\ UNCHANGED <<adapters, defaultAdapterId, sessionAdapters, dispatchVars>>
        /\ UNCHANGED clientVars

\* case "permission.replied"
PermissionRepliedFor(sessionID, requestID) ==
    /\ QuietStep
    /\ permission' = IF sessionID \in DOMAIN permission
                     THEN Put(permission, sessionID, Remove(permission[sessionID], requestID))
                     ELSE permission
    /\ wellBehaved' = Aggregates(session_cost, session_tokens, derivedStatus)
    /\ UNCHANGED <<session, message, part, question, todo, session_status,
                   session_cost, session_tokens, derivedStatus, lastStatus>>
    /\ UNCHANGED routerVars
    /\ UNCHANGED clientVars

PermissionReplied ==
    \E sessionID \in SessionIds, requestID \in RequestIds :
        PermissionRepliedFor(sessionID, requestID)

\* case "question.asked"
QuestionAsked ==
    \E sessionID \in SessionIds, id \in RequestIds, beh \in ConsumerBehaviours :
        /\ Len(roundTrips) < MaxRoundTrips
        /\ QuietStep
        /\ question' = Put(question, sessionID,
                           IF sessionID \in DOMAIN question
                           THEN Upsert(question[sessionID], Request(id, sessionID))
                           ELSE <<Request(id, sessionID)>>)
        /\ roundTrips' = IF subscribed
                         THEN Append(roundTrips, StartRoundTrip("question", sessionID, id, beh))
                         ELSE roundTrips
        /\ wellBehaved' = Aggregates(session_cost, session_tokens, derivedStatus)
        /\ UNCHANGED <<session, message, part, permission, todo, session_status,
                       session_cost, session_tokens, derivedStatus, lastStatus>>
        /\ UNCHANGED <<adapters, defaultAdapterId, sessionAdapters, dispatchVars>>
        /\ UNCHANGED clientVars

\* case "question.replied" / "question.rejected"
QuestionRepliedFor(sessionID, requestID) ==
    /\ QuietStep
    /\ question' = IF sessionID \in DOMAIN question
                   THEN Put(question, sessionID, Remove(question[sessionID], requestID))
                   ELSE question
    /\ wellBehaved' = Aggregates(session_cost, session_tokens, derivedStatus)
    /\ UNCHANGED <<session, message, part, permission, todo, session_status,
                   session_cost, session_tokens, derivedStatus, lastStatus>>
    /\ UNCHANGED routerVars
    /\ UNCHANGED clientVars

QuestionReplied ==
    \E sessionID \in SessionIds, requestID \in RequestIds :
        QuestionRepliedFor(sessionID, requestID)

\* case "todo.updated": the router's subscription catches what onTodoUpdate throws
TodoUpdated ==
    \E sessionID \in SessionIds, todos \in {<<>>, <<"item">>} :
        /\ QuietStep
        /\ todo' = Put(todo, sessionID, todos)
        /\ wellBehaved' = Aggregates(session_cost, session_tokens, derivedStatus)
        /\ UNCHANGED <<session, message, part, permission, question, session_status,
                       session_cost, session_tokens, derivedStatus, lastStatus>>
        /\ UNCHANGED routerVars
        /\ UNCHANGED clientVars

\* case "tui.toast.show" and case "session.error" (with a sessionID): emitted
\* directly, the router's subscriptions catch what onToast / onSessionError throw
ToastOrSessionError ==
    \E kind \in {"toast", "sessionError"}, sessionID \in SessionIds,
       throwers \in SUBSET adapters :
        /\ QuietStep
        /\ wellBehaved' = Aggregates(session_cost, session_tokens, derivedStatus)
        /\ toastCalls' = IF kind = "toast" /\ subscribed
                         THEN [calls |-> ToastFanOut(AdapterOrder, throwers,
                                                     [a \in adapters |-> 0]),
                               throwers |-> throwers]
                         ELSE toastCalls
        /\ UNCHANGED <<session, message, part, permission, question, todo,
                       session_status, session_cost, session_tokens, derivedStatus, lastStatus>>
        /\ UNCHANGED <<adapters, defaultAdapterId, sessionAdapters, roundTrips,
                       pendingPromptOrigins, idealOrigins, promptsSince, lastInbound,
                       subscribed, lastCallback, shutdownCalled>>
        /\ UNCHANGED clientVars

\* case "session.created" / "session.updated"
SessionUpdated ==
    \E id \in SessionIds, compacting \in BOOLEAN :
        LET sessions == Upsert(session, Session(id, compacting))
            status == UpdateDerivedStatus(derivedStatus, sessions, message, id)
        IN  /\ QuietStep
            /\ session' = sessions
            /\ derivedStatus' = status.derived
            /\ lastStatus' = StatusEmitted(status.derived)
            /\ wellBehaved' = Aggregates(session_cost, session_tokens, status.derived)
            /\ UNCHANGED <<message, part, permission, question, todo, session_status,
                           session_cost, session_tokens>>
            /\ UNCHANGED routerVars
            /\ UNCHANGED clientVars

\* case "session.deleted"
SessionDeleted ==
    \E id \in SessionIds :
        /\ QuietStep
        /\ session' = Remove(session, id)
        /\ derivedStatus' = Delete(derivedStatus, {id})
        /\ UNCHANGED lastStatus
        /\ wellBehaved' = Aggregates(session_cost, session_tokens, derivedStatus')
        /\ UNCHANGED <<message, part, permission, question, todo, session_status,
                       session_cost, session_tokens>>
        /\ UNCHANGED routerVars
        /\ UNCHANGED clientVars

\* case "session.status"
SessionStatus ==
    \E sessionID \in SessionIds, raw \in {"busy", "idle"} :
        LET status == UpdateDerivedStatus(derivedStatus, session, message, sessionID)
        IN  /\ QuietStep
            /\ session_status' = Put(session_status, sessionID, raw)
            /\ derivedStatus' = status.derived
            /\ lastStatus' = StatusEmitted(status.derived)
            /\ wellBehaved' = Aggregates(session_cost, session_tokens, status.derived)
            /\ UNCHANGED <<session, message, part, permission, question, todo,
                           session_cost, session_tokens>>
            /\ UNCHANGED routerVars
            /\ UNCHANGED clientVars

\* case "message.updated": upsert, cap, emitAssistantMessage, accumulateCost,
\* updateDerivedStatus, in this order; a throw out of emitAssistantMessage
\* skips the two calls after it
MessageUpdated ==
    \E info \in MessageInputs :
      LET sessionID == info.sessionID
          messages == Get(message, sessionID)
          result == BinarySearch(messages, info.id)
          previous == IF result.found THEN messages[result.index + 1] ELSE NoMessage
      IN
      \E beh \in BehavioursFor(AssistantMessageEmits(info, previous)) :
        LET
            capped == EnforceCap(Upsert(messages, info), {})
            newMessage == Put(message, sessionID, capped.messages)
            dispatch == Dispatch(AssistantMessageEmits(info, previous), beh)
            cost == AccumulateCost(info, previous, session_cost, session_tokens)
            status == UpdateDerivedStatus(derivedStatus, session, newMessage, sessionID)
        IN  /\ steps < MaxSteps
            /\ steps' = steps + 1
            /\ UNCHANGED bootVars
            /\ message' = newMessage
            /\ part' = Delete(part, capped.evicted)
            /\ lastEvicted' = Evictions(capped.evicted)
            /\ removedMessages' = (removedMessages \ {info.id}) \cup capped.evicted
            /\ threw' = dispatch.threw
            /\ completions' = RecordCompletions(dispatch.emitted)
            /\ observedCost' = IF info.role = "assistant"
                               THEN Put(observedCost, info.id,
                                        IF info.id \in DOMAIN observedCost
                                           /\ observedCost[info.id] > info.cost
                                        THEN observedCost[info.id] ELSE info.cost)
                               ELSE observedCost
            /\ wellBehaved' = Aggregates(cost.cost, cost.tokens, status.derived)
            /\ IF dispatch.threw
               THEN UNCHANGED <<session_cost, session_tokens, derivedStatus, lastStatus>>
               ELSE /\ session_cost' = cost.cost
                    /\ session_tokens' = cost.tokens
                    /\ derivedStatus' = status.derived
                    /\ lastStatus' = StatusEmitted(status.derived)
            /\ UNCHANGED <<session, permission, question, todo, session_status,
                           fullSyncedSessions, syncInFlight>>
            /\ UNCHANGED routerVars
            /\ UNCHANGED clientVars

\* case "message.removed"
MessageRemoved ==
    \E messageID \in MessageIds :
        LET sessionID == SessionOfMessage(messageID)
        IN  IF sessionID \notin DOMAIN message
            THEN /\ QuietStep
                 /\ wellBehaved' = Aggregates(session_cost, session_tokens, derivedStatus)
                 /\ UNCHANGED <<session, message, part, permission, question, todo,
                                session_status, session_cost, session_tokens,
                                derivedStatus, lastStatus>>
                 /\ UNCHANGED routerVars
                 /\ UNCHANGED clientVars
            ELSE LET result == BinarySearch(message[sessionID], messageID)
                     newMessage == Put(message, sessionID, Remove(message[sessionID], messageID))
                     status == UpdateDerivedStatus(derivedStatus, session, newMessage, sessionID)
                 IN  /\ steps < MaxSteps
                     /\ steps' = steps + 1
                     /\ UNCHANGED bootVars
                     /\ message' = newMessage
                     /\ part' = IF result.found THEN Delete(part, {messageID}) ELSE part
                     /\ removedMessages' = IF result.found
                                           THEN removedMessages \cup {messageID}
                                           ELSE removedMessages
                     /\ lastEvicted' = {}
                     /\ threw' = FALSE
                     /\ derivedStatus' = status.derived
                     /\ lastStatus' = StatusEmitted(status.derived)
                     /\ wellBehaved' = Aggregates(session_cost, session_tokens, status.derived)
                     /\ UNCHANGED <<session, permission, question, todo, session_status,
                                    session_cost, session_tokens, fullSyncedSessions,
                                    syncInFlight, completions, observedCost>>
                     /\ UNCHANGED routerVars
                     /\ UNCHANGED clientVars

\* case "message.part.updated"
PartUpdated ==
    \E messageID \in MessageIds, id \in PartIds :
      \E beh \in BehavioursFor(AssistantMessageFromPartEmits(SessionOfMessage(messageID), messageID)) :
        LET sessionID == SessionOfMessage(messageID)
            dispatch == Dispatch(AssistantMessageFromPartEmits(sessionID, messageID), beh)
        IN  /\ steps < MaxSteps
            /\ steps' = steps + 1
            /\ UNCHANGED bootVars
            /\ part' = Put(part, messageID, Upsert(Get(part, messageID), Part(id, messageID, 0)))
            /\ threw' = dispatch.threw
            /\ lastEvicted' = {}
            /\ wellBehaved' = Aggregates(session_cost, session_tokens, derivedStatus)
            /\ completions' = RecordCompletions(dispatch.emitted)
            /\ UNCHANGED observedCost
            /\ UNCHANGED <<session, message, permission, question, todo, session_status,
                           session_cost, session_tokens, derivedStatus, lastStatus,
                           fullSyncedSessions, syncInFlight, removedMessages>>
            /\ UNCHANGED routerVars
            /\ UNCHANGED clientVars

\* case "message.part.delta", field "text": appended to when it is a string
PartDelta ==
    \E messageID \in MessageIds, partID \in PartIds :
      \E beh \in BehavioursFor(AssistantMessageFromPartEmits(SessionOfMessage(messageID), messageID)) :
        LET sessionID == SessionOfMessage(messageID)
            found == messageID \in DOMAIN part
                     /\ BinarySearch(part[messageID], partID).found
            index == BinarySearch(part[messageID], partID).index + 1
            dispatch == IF found
                        THEN Dispatch(AssistantMessageFromPartEmits(sessionID, messageID), beh)
                        ELSE [emitted |-> <<>>, threw |-> FALSE]
        IN  /\ steps < MaxSteps
            /\ found => part[messageID][index].text < MaxText
            /\ steps' = steps + 1
            /\ UNCHANGED bootVars
            /\ part' = IF found
                       THEN [part EXCEPT ![messageID][index].text = @ + 1]
                       ELSE part
            /\ threw' = dispatch.threw
            /\ lastEvicted' = {}
            /\ wellBehaved' = Aggregates(session_cost, session_tokens, derivedStatus)
            /\ completions' = RecordCompletions(dispatch.emitted)
            /\ UNCHANGED observedCost
            /\ UNCHANGED <<session, message, permission, question, todo, session_status,
                           session_cost, session_tokens, derivedStatus, lastStatus,
                           fullSyncedSessions, syncInFlight, removedMessages>>
            /\ UNCHANGED routerVars
            /\ UNCHANGED clientVars

\* case "message.part.removed"
PartRemoved ==
    \E messageID \in MessageIds, partID \in PartIds :
      \E beh \in BehavioursFor(AssistantMessageFromPartEmits(SessionOfMessage(messageID), messageID)) :
        LET sessionID == SessionOfMessage(messageID)
            present == messageID \in DOMAIN part
            dispatch == IF present
                        THEN Dispatch(AssistantMessageFromPartEmits(sessionID, messageID), beh)
                        ELSE [emitted |-> <<>>, threw |-> FALSE]
        IN  /\ steps < MaxSteps
            /\ steps' = steps + 1
            /\ UNCHANGED bootVars
            /\ part' = IF present
                       THEN Put(part, messageID, Remove(part[messageID], partID))
                       ELSE part
            /\ threw' = dispatch.threw
            /\ lastEvicted' = {}
            /\ wellBehaved' = Aggregates(session_cost, session_tokens, derivedStatus)
            /\ completions' = RecordCompletions(dispatch.emitted)
            /\ UNCHANGED observedCost
            /\ UNCHANGED <<session, message, permission, question, todo, session_status,
                           session_cost, session_tokens, derivedStatus, lastStatus,
                           fullSyncedSessions, syncInFlight, removedMessages>>
            /\ UNCHANGED routerVars
            /\ UNCHANGED clientVars

(***************************************************************************)
(* State store: full-session sync (SyncStore.syncSession)                  *)
(***************************************************************************)

\* the history the remote service returns for a session: its messages in
\* identifier order, each with its parts
FetchedInfo(m) ==
    IF m % 3 = 0 THEN UserMessage(m)
    ELSE AssistantMessage(m, m % 2 = 0, 1, Tokens(1, 1, 1, 1, 1))

RECURSIVE FetchedHistory(_)
FetchedHistory(ids) ==
    IF ids = {} THEN <<>>
    ELSE LET m == CHOOSE x \in ids : \A y \in ids : x <= y
         IN  <<[info |-> FetchedInfo(m), parts |-> <<Part(1, m, 0)>>]>>
             \o FetchedHistory(ids \ {m})

FetchedHistories(sessionID) == {FetchedHistory(ids) : ids \in SUBSET MessageIdsOf(sessionID)}

\* totals over the retained messages only
RECURSIVE HistoryTotalsOfRetained(_)
HistoryTotalsOfRetained(allMessages) ==
    IF allMessages = <<>> THEN [cost |-> 0, tokens |-> ZeroSummary]
    ELSE IF Len(allMessages) > MessageCap THEN HistoryTotalsOfRetained(Tail(allMessages))
    ELSE LET info == Head(allMessages).info
             rest == HistoryTotalsOfRetained(Tail(allMessages))
         IN  IF info.role = "assistant"
             THEN [cost |-> info.cost + rest.cost,
                   tokens |-> [f \in TokenFields |-> info.tokens[f] + rest.tokens[f]]]
             ELSE rest

\* the loop over allMessages that sums cost and tokens of the assistant messages
RECURSIVE HistoryTotals(_)
HistoryTotals(allMessages) ==
    IF allMessages = <<>> THEN [cost |-> 0, tokens |-> ZeroSummary]
    ELSE LET info == Head(allMessages).info
             rest == HistoryTotals(Tail(allMessages))
         IN  IF info.role = "assistant"
             THEN [cost |-> info.cost + rest.cost,
                   tokens |-> [f \in TokenFields |-> info.tokens[f] + rest.tokens[f]]]
             ELSE rest

\* allMessages.slice(-100)
Recent(allMessages) ==
    IF Len(allMessages) > MessageCap
    THEN SubSeq(allMessages, Len(allMessages) - MessageCap + 1, Len(allMessages))
    ELSE allMessages

\* session.sync up to its await: returns at once for a fully synced session
SyncStart ==
    \E sessionID \in SyncedSessionIds :
        /\ sessionID \notin fullSyncedSessions
        /\ sessionID \notin syncInFlight
        /\ steps < MaxSteps
        /\ syncInFlight' = syncInFlight \cup {sessionID}
        /\ UNCHANGED bootVars
        /\ UNCHANGED <<session, message, part, permission, question, todo, session_status,
                       session_cost, session_tokens, derivedStatus, lastStatus,
                       fullSyncedSessions, steps, threw, wellBehaved, lastEvicted, removedMessages,
                       completions, observedCost>>
        /\ UNCHANGED routerVars
        /\ UNCHANGED clientVars

\* a fetch of session.sync fails: the call rejects and the store is untouched
SyncFail ==
    \E sessionID \in syncInFlight :
        /\ syncInFlight' = syncInFlight \ {sessionID}
        /\ UNCHANGED bootVars
        /\ UNCHANGED <<session, message, part, permission, question, todo, session_status,
                       session_cost, session_tokens, derivedStatus, lastStatus,
                       fullSyncedSessions, steps, threw, wellBehaved, lastEvicted, removedMessages,
                       completions, observedCost>>
        /\ UNCHANGED routerVars
        /\ UNCHANGED clientVars

\* session.sync after its await
SyncSession ==
    \E sessionID \in syncInFlight :
      \E allMessages \in FetchedHistories(sessionID) :
        LET totals == HistoryTotals(allMessages)
            recentMessages == Recent(allMessages)
            infos == [i \in 1..Len(recentMessages) |-> recentMessages[i].info]
            newSession == Upsert(session, Session(sessionID, FALSE))
            newMessage == Put(message, sessionID, infos)
            status == UpdateDerivedStatus(derivedStatus, newSession, newMessage, sessionID)
        IN  /\ steps < MaxSteps
            /\ steps' = steps + 1
            /\ UNCHANGED bootVars
            /\ syncInFlight' = syncInFlight \ {sessionID}
            /\ session' = newSession
            /\ todo' = Put(todo, sessionID, <<>>)
            /\ session_cost' = Put(session_cost, sessionID, totals.cost)
            /\ session_tokens' = Put(session_tokens, sessionID, totals.tokens)
            /\ message' = newMessage
            \* every key of state.part that is not a retained message of this
            \* session is deleted, then the retained messages' parts are set
            /\ part' = [k \in Ids(infos) |->
                           LET i == CHOOSE j \in 1..Len(recentMessages) :
                                        recentMessages[j].info.id = k
                           IN  recentMessages[i].parts]
            /\ fullSyncedSessions' = fullSyncedSessions \cup {sessionID}
            /\ derivedStatus' = status.derived
            /\ lastStatus' = StatusEmitted(status.derived)
            /\ threw' = FALSE
            /\ wellBehaved' = Aggregates(session_cost', session_tokens', status.derived)
            /\ lastEvicted' = Evictions({allMessages[i].info.id : i \in 1..Len(allMessages)} \ Ids(infos))
            /\ removedMessages' = removedMessages \ Ids(infos)
            /\ UNCHANGED <<permission, question, session_status, completions, observedCost>>
            /\ UNCHANGED routerVars
            /\ UNCHANGED clientVars

(***************************************************************************)
(* State store: bootstrap and connection reset                             *)
(***************************************************************************)

\* the fetches of the blocking Promise.all and of the auxiliary Promise.all
BlockingFetches == 5
AuxiliaryFetches == 9

\* a bootstrap call: where it is suspended, the fetches of that step that
\* have not returned, whether processEvent started it, the status it found
\* when its blocking fetches had returned, and what its failure surfaced
Bootstrap(pc, left, reset) ==
    [pc |-> pc, left |-> left, reset |-> reset, found |-> None, surfaced |-> None]

\* the session lists session.list returns, sorted by id
FetchedSessions ==
    {<<>>, <<Session(1, FALSE)>>, <<Session(2, FALSE)>>,
     <<Session(1, FALSE), Session(2, FALSE)>>}

\* the maps session.status returns
FetchedStatuses == {<<>>, Put(<<>>, 1, "busy")}

BootstrapIdle ==
    /\ UNCHANGED <<message, part, permission, question, todo, session_cost,
                   session_tokens, derivedStatus, lastStatus, fullSyncedSessions,
                   syncInFlight, steps, threw, wellBehaved, lastEvicted,
                   removedMessages, completions, observedCost>>
    /\ UNCHANGED routerVars
    /\ UNCHANGED clientVars

\* HeadlessClient.bootstrap on a client whose sdk is set: SyncStore.bootstrap
\* up to its first await, the blocking fetches issued
BootstrapCall ==
    /\ sdkSet
    /\ Len(bootstraps) < MaxBootstraps
    /\ sdk' = TRUE
    /\ bootstraps' = Append(bootstraps, Bootstrap("blocking", BlockingFetches, FALSE))
    /\ UNCHANGED <<session, session_status, state_status, status_notified>>
    /\ BootstrapIdle

\* one fetch of the step a bootstrap is suspended at returns, others are out
FetchReturns ==
    \E i \in DOMAIN bootstraps :
        /\ bootstraps[i].pc \in {"blocking", "auxiliary"}
        /\ bootstraps[i].left > 1
        /\ bootstraps' = [bootstraps EXCEPT ![i].left = @ - 1]
        /\ UNCHANGED <<session, session_status, state_status, status_notified, sdk>>
        /\ BootstrapIdle

\* a blocking step that sets the status to partial whatever it was
BlockingReturnsAlwaysPartial ==
    \E i \in DOMAIN bootstraps, sessions \in FetchedSessions :
        /\ bootstraps[i].pc = "blocking"
        /\ bootstraps[i].left = 1
        /\ session' = sessions
        /\ state_status' = "partial"
        /\ status_notified' = "partial"
        /\ bootstraps' = [bootstraps EXCEPT ![i].pc = "auxiliary",
                                            ![i].left = AuxiliaryFetches,
                                            ![i].found = state_status]
        /\ UNCHANGED <<session_status, sdk>>
        /\ BootstrapIdle

\* the last blocking fetch returns: the fetched data are stored, the status
\* becomes partial unless it is complete, the auxiliary fetches are issued
BlockingReturns ==
    \E i \in DOMAIN bootstraps, sessions \in FetchedSessions :
        /\ bootstraps[i].pc = "blocking"
        /\ bootstraps[i].left = 1
        /\ session' = sessions
        /\ state_status' = IF state_status # "complete" THEN "partial" ELSE state_status
        /\ status_notified' = IF state_status # "complete" THEN "partial" ELSE status_notified
        /\ bootstraps' = [bootstraps EXCEPT ![i].pc = "auxiliary",
                                            ![i].left = AuxiliaryFetches,
                                            ![i].found = state_status]
        /\ UNCHANGED <<session_status, sdk>>
        /\ BootstrapIdle

\* the last auxiliary fetch returns: the fetched data are stored and the
\* status becomes complete
AuxiliaryReturns ==
    \E i \in DOMAIN bootstraps, statuses \in FetchedStatuses :
        /\ bootstraps[i].pc = "auxiliary"
        /\ bootstraps[i].left = 1
        /\ session_status' = statuses
        /\ state_status' = "complete"
        /\ status_notified' = "complete"
        /\ bootstraps' = [bootstraps EXCEPT ![i].pc = "done", ![i].left = 0]
        /\ UNCHANGED <<session, sdk>>
        /\ BootstrapIdle

\* a fetch rejects. In the blocking step the promise of bootstrap rejects:
\* HeadlessClient.bootstrap catches it and emits error, the void call of
\* processEvent leaves it unhandled. In the auxiliary step the catch of the
\* detached block emits an error toast.
FetchFails ==
    \E i \in DOMAIN bootstraps :
        /\ bootstraps[i].pc \in {"blocking", "auxiliary"}
        /\ bootstraps' = [bootstraps EXCEPT
              ![i].pc = "failed",
              ![i].surfaced = IF bootstraps[i].pc = "auxiliary" THEN "toast"
                              ELSE IF bootstraps[i].reset THEN "unhandled"
                              ELSE "error"]
        /\ UNCHANGED <<session, session_status, state_status, status_notified, sdk>>
        /\ BootstrapIdle

\* a connection reset that keeps the fully-synced marks
DisposedKeepingSynced ==
    /\ steps < MaxSteps
    /\ sdk => Len(bootstraps) < MaxBootstraps
    /\ steps' = steps + 1
    /\ state_status' = "loading"
    /\ status_notified' = "loading"
    /\ derivedStatus' = <<>>
    /\ bootstraps' = IF sdk
                     THEN Append(bootstraps, Bootstrap("blocking", BlockingFetches, TRUE))
                     ELSE bootstraps
    /\ threw' = FALSE
    /\ lastEvicted' = {}
    /\ wellBehaved' = Aggregates(session_cost, session_tokens, <<>>)
    /\ UNCHANGED <<session, message, part, permission, question, todo, session_status,
                   session_cost, session_tokens, lastStatus, syncInFlight, fullSyncedSessions,
                   removedMessages, completions, observedCost, sdk>>
    /\ UNCHANGED routerVars
    /\ UNCHANGED clientVars

\* case "server.instance.disposed"
Disposed ==
    /\ steps < MaxSteps
    /\ sdk => Len(bootstraps) < MaxBootstraps
    /\ steps' = steps + 1
    /\ state_status' = "loading"
    /\ status_notified' = "loading"
    /\ fullSyncedSessions' = {}
    /\ derivedStatus' = <<>>
    /\ bootstraps' = IF sdk
                     THEN Append(bootstraps, Bootstrap("blocking", BlockingFetches, TRUE))
                     ELSE bootstraps
    /\ threw' = FALSE
    /\ lastEvicted' = {}
    /\ wellBehaved' = Aggregates(session_cost, session_tokens, <<>>)
    /\ UNCHANGED <<session, message, part, permission, question, todo, session_status,
                   session_cost, session_tokens, lastStatus, syncInFlight,
                   removedMessages, completions, observedCost, sdk>>
    /\ UNCHANGED routerVars
    /\ UNCHANGED clientVars

(***************************************************************************)
(* Initial states                                                          *)
(***************************************************************************)

\* SyncStore's constructor
InitStoreVars ==
    /\ session = <<>>
    /\ message = <<>>
    /\ part = <<>>
    /\ permission = <<>>
    /\ question = <<>>
    /\ todo = <<>>
    /\ session_status = <<>>
    /\ session_cost = <<>>
    /\ session_tokens = <<>>
    /\ derivedStatus = <<>>
    /\ fullSyncedSessions = {}
    /\ syncInFlight = {}
    /\ steps = 0
    /\ threw = FALSE
    /\ wellBehaved = Aggregates(<<>>, <<>>, <<>>)
    /\ lastEvicted = {}
    /\ removedMessages = {}
    /\ completions = <<>>
    /\ observedCost = <<>>
    /\ lastStatus = <<>>
    /\ state_status = "loading"
    /\ status_notified = None
    /\ sdk = FALSE
    /\ bootstraps = <<>>

\* HeadlessRouter's constructor, for a configuration
InitRouterVars(registered, default) ==
    /\ adapters = registered
    /\ defaultAdapterId = default
    /\ sessionAdapters = <<>>
    /\ roundTrips = <<>>
    /\ pendingPromptOrigins = <<>>
    /\ idealOrigins = <<>>
    /\ promptsSince = <<>>
    /\ lastInbound = NoInbound
    /\ toastCalls = NoToast
    /\ subscribed = TRUE
    /\ lastCallback = NoCallback
    /\ shutdownCalled = FALSE

\* HeadlessClient's constructor
InitClientVars(events) ==
    /\ connected = FALSE
    /\ loopActive = FALSE
    /\ abortController = 0
    /\ aborted = {}
    /\ controllers = 0
    /\ unsubscribe = 0
    /\ sdkSet = FALSE
    /\ queue = <<>>
    /\ timer = -1
    /\ lastFlush = 0
    /\ now = BatchInterval
    /\ useEvents = events
    /\ connects = 0
    /\ loops = <<>>
    /\ subscriptions = {}
    /\ subscribeCalls = 0
    /\ sourceEvents = 0
    /\ received = <<>>
    /\ delivered = <<>>
    /\ failures = 0
    /\ signals = <<>>
    /\ rejected = 0

(***************************************************************************)
(* The store fed with events, a router with one consumer subscribed        *)
(***************************************************************************)

InitStore ==
    /\ InitStoreVars
    /\ InitRouterVars({"a"}, None)
    /\ InitClientVars(FALSE)

NextStore ==
    \/ PermissionAsked
    \/ PermissionReplied
    \/ QuestionAsked
    \/ QuestionReplied
    \/ TodoUpdated
    \/ ToastOrSessionError
    \/ SessionUpdated
    \/ SessionDeleted
    \/ SessionStatus
    \/ MessageUpdated
    \/ MessageRemoved
    \/ PartUpdated
    \/ PartDelta
    \/ PartRemoved
    \/ SyncStart
    \/ SyncFail
    \/ SyncSession

SpecStore == InitStore /\ [][NextStore]_vars

(***************************************************************************)
(* Properties of the store                                                 *)
(***************************************************************************)

\* SyncStore.sessionCost / SyncStore.sessionTokens
SessionCost(costs, sessionID) == IF sessionID \in DOMAIN costs THEN costs[sessionID] ELSE 0

SessionTokens(tokens, sessionID) ==
    IF sessionID \in DOMAIN tokens THEN tokens[sessionID] ELSE ZeroSummary

\* C2: for every session that exists, the running cost and each of the five
\* running token aggregates never decrease across a store operation (message
\* upsert, removal, eviction, part event, full-session sync).
C2_AggregatesNeverDecrease ==
    [][\A s \in SessionIds :
          (s \in Ids(session) /\ s \in Ids(session'))
          => /\ SessionCost(session_cost', s) >= SessionCost(session_cost, s)
             /\ \A f \in TokenFields :
                   SessionTokens(session_tokens', s)[f] >= SessionTokens(session_tokens, s)[f]
      ]_vars

\* C3: after every store operation every message list holds at most
\* MessageCap messages, and no message the operation evicted by the cap has
\* a part list.
C3_CapAndEviction ==
    /\ \A s \in DOMAIN message : Len(message[s]) <= MessageCap
    /\ \A e \in lastEvicted : e.id \notin DOMAIN part

\* C3 happens: a processEvent call evicted a message the store held parts of
C3_Witness ==
    /\ \E e \in lastEvicted : e.hadParts
    /\ \E s \in DOMAIN message : Len(message[s]) = MessageCap
    /\ fullSyncedSessions = {}

\* C5: no message that was removed or evicted, and not upserted again since,
\* has a part list.
C5_PartNeverOutlivesMessage ==
    \A m \in removedMessages : m \notin DOMAIN part

\* C6: every per-entity collection is strictly increasing by identifier.
C6_CollectionsSorted ==
    /\ StrictlySorted(session)
    /\ \A s \in DOMAIN message : StrictlySorted(message[s])
    /\ \A m \in DOMAIN part : StrictlySorted(part[m])
    /\ \A s \in DOMAIN permission : StrictlySorted(permission[s])
    /\ \A s \in DOMAIN question : StrictlySorted(question[s])

\* C6 happens: upserts and removals have built collections of two entries
C6_Witness ==
    /\ \E m \in DOMAIN part : Len(part[m]) = 2
    /\ Len(session) >= 1
    /\ steps = MaxSteps

\* the status C7 gives for a message list of a session whose compacting flag is unset
StatusOfMessages(list) ==
    IF Len(list) = 0 THEN "idle"
    ELSE IF list[Len(list)].role = "user" THEN "working"
    ELSE IF list[Len(list)].completed THEN "idle"
    ELSE "working"

CompactingFlag(sessionID) ==
    \E i \in 1..Len(session) : session[i].id = sessionID /\ session[i].compacting

\* C7 as claimed: for any session id that has messages in the store and whose
\* compacting flag is unset, the derived status is the one the last message gives.
C7_StatusOfAnySessionId ==
    \A s \in DOMAIN message :
        (Len(message[s]) > 0 /\ ~CompactingFlag(s))
        => GetSessionStatus(session, message, s) = StatusOfMessages(message[s])

\* C7 amended: for a session that is in the session list the derived status is
\* compacting when its flag is set and else the one the last message gives
\* (idle without messages); for a session id that is not in the session list
\* it is idle whatever its messages.
C7_StatusOfKnownSession ==
    \A s \in SessionIds :
        GetSessionStatus(session, message, s) =
            IF s \notin Ids(session) THEN "idle"
            ELSE IF CompactingFlag(s) THEN "compacting"
            ELSE StatusOfMessages(Get(message, s))

\* C7 happens: a known session, not compacting, whose last message is a user message
C7_Witness ==
    \E s \in Ids(session) :
        /\ ~CompactingFlag(s)
        /\ Len(Get(message, s)) > 0
        /\ message[s][Len(message[s])].role = "user"

\* C8: no processEvent call throws because of a consumer callback, and the
\* aggregates and the derived status after it are those a well-behaved
\* consumer leaves.
C8_ConsumerFailureContained ==
    /\ ~threw
    /\ wellBehaved = Aggregates(session_cost, session_tokens, derivedStatus)

(***************************************************************************)
(* The router's permission and question round-trips                        *)
(***************************************************************************)

\* the replies a consumer can resolve its promise with
Replies(kind) ==
    IF kind = "permission"
    THEN {[reply |-> "once", message |-> None], [reply |-> "always", message |-> None],
          [reply |-> "reject", message |-> "why"]}
    ELSE {[answers |-> <<"yes">>], [rejected |-> TRUE]}

\* a forward that sends the reject reply whatever the consumer answered
ReplyCallRejecting(kind, reply) == RejectCall(kind)

\* HeadlessRouter.replyPermission / replyQuestion: the remote call a reply becomes
ReplyCall(kind, reply) ==
    IF kind = "permission"
    THEN [op |-> "permission.reply", reply |-> reply.reply, message |-> reply.message]
    ELSE IF "rejected" \in DOMAIN reply THEN [op |-> "question.reject"]
    ELSE [op |-> "question.reply", answers |-> reply.answers]

\* the round-trip code touches neither the store, the client nor the
\* router's prompt origins
RouterIdle ==
    /\ UNCHANGED storeVars
    /\ UNCHANGED clientVars
    /\ UNCHANGED dispatchVars

\* HeadlessRouter.setSessionAdapter (throws for an unregistered adapter)
SetSessionAdapter ==
    \E sessionID \in SessionIds, adapterID \in AdapterIds :
        /\ adapterID \in adapters
        /\ sessionAdapters' = Put(sessionAdapters, sessionID, adapterID)
        /\ UNCHANGED <<adapters, defaultAdapterId, roundTrips>>
        /\ RouterIdle

\* HeadlessRouter.clearSessionAdapter
ClearSessionAdapter ==
    \E sessionID \in DOMAIN sessionAdapters :
        /\ sessionAdapters' = Delete(sessionAdapters, {sessionID})
        /\ UNCHANGED <<adapters, defaultAdapterId, roundTrips>>
        /\ RouterIdle

\* a router with one timer for all its round-trips: settling one request
\* rejects every other request that is still waiting
SettleRoundTripShared(i, trip) ==
    /\ roundTrips' = [j \in DOMAIN roundTrips |->
                         IF j = i THEN trip
                         ELSE IF roundTrips[j].state = "waiting"
                         THEN [roundTrips[j] EXCEPT
                                  !.state = "fallbackCall", !.timerArmed = FALSE,
                                  !.settledBy = "timeout",
                                  !.calls = Append(@, RejectCall(roundTrips[j].kind))]
                         ELSE roundTrips[j]]
    /\ UNCHANGED <<adapters, defaultAdapterId, sessionAdapters>>
    /\ RouterIdle

\* one step of one round-trip: no other round-trip is touched
SettleRoundTrip(i, trip) ==
    /\ roundTrips' = [roundTrips EXCEPT ![i] = trip]
    /\ UNCHANGED <<adapters, defaultAdapterId, sessionAdapters>>
    /\ RouterIdle

\* the consumer's promise resolves first: finally clears the timer, the
\* reply is forwarded
ConsumerAnswers ==
    \E i \in DOMAIN roundTrips :
        /\ roundTrips[i].state = "waiting"
        /\ \E reply \in Replies(roundTrips[i].kind) :
              SettleRoundTrip(i, [roundTrips[i] EXCEPT
                  !.state = "replyCall", !.timerArmed = FALSE, !.settledBy = "answer",
                  !.answer = reply,
                  !.calls = Append(@, ReplyCall(roundTrips[i].kind, reply))])

\* the consumer's promise rejects first: the catch block sends the reject reply
ConsumerRejects ==
    \E i \in DOMAIN roundTrips :
        /\ roundTrips[i].state = "waiting"
        /\ SettleRoundTrip(i, [roundTrips[i] EXCEPT
                  !.state = "fallbackCall", !.timerArmed = FALSE, !.settledBy = "rejection",
                  !.calls = Append(@, RejectCall(roundTrips[i].kind))])

\* the timer of withTimeout fires first: the race rejects with "timed out"
\* and the catch block sends the reject reply
TimeoutFires ==
    \E i \in DOMAIN roundTrips :
        /\ roundTrips[i].state = "waiting"
        /\ roundTrips[i].timerArmed
        /\ SettleRoundTrip(i, [roundTrips[i] EXCEPT
                  !.state = "fallbackCall", !.timerArmed = FALSE, !.settledBy = "timeout",
                  !.calls = Append(@, RejectCall(roundTrips[i].kind))])

\* the remote call of a round-trip returns or fails: a failed forward falls
\* into the catch block and sends the reject reply, a failed reject reply
\* leaves handlePermission / handleQuestion as a rejected promise
RemoteCallReturns ==
    \E i \in DOMAIN roundTrips, ok \in BOOLEAN :
        /\ roundTrips[i].state \in {"replyCall", "fallbackCall"}
        /\ SettleRoundTrip(i,
              IF ok THEN [roundTrips[i] EXCEPT !.state = "done"]
              ELSE IF roundTrips[i].state = "replyCall"
              THEN [roundTrips[i] EXCEPT
                       !.state = "fallbackCall",
                       !.calls = Append(@, RejectCall(roundTrips[i].kind))]
              ELSE [roundTrips[i] EXCEPT !.state = "done", !.unhandled = TRUE])

RouterConfigs ==
    {<<{}, None>>, <<{"a"}, None>>, <<{"a", "b"}, None>>, <<{"a", "b"}, "b">>}

InitRouter ==
    /\ InitStoreVars
    /\ \E config \in RouterConfigs : InitRouterVars(config[1], config[2])
    /\ InitClientVars(FALSE)

NextRouter ==
    \/ SetSessionAdapter
    \/ ClearSessionAdapter
    \/ PermissionAsked
    \/ QuestionAsked
    \/ ConsumerAnswers
    \/ ConsumerRejects
    \/ TimeoutFires
    \/ RemoteCallReturns

\* the timer of a pending round-trip fires unless the consumer settles first
SpecRouter == InitRouter /\ [][NextRouter]_vars /\ WF_vars(TimeoutFires)

\* C1: every permission or question notification the store emits leads to
\* at least one reply or reject call to the remote service, whether the
\* consumer answers, never answers, throws or rejects.
C1_RoundTripAlwaysReplies ==
    \A i \in 1..MaxRoundTrips :
        (i <= Len(roundTrips)) ~> (i <= Len(roundTrips) /\ Len(roundTrips[i].calls) > 0)

\* C1 happens: a consumer never answered, the timeout fired and the reject
\* reply went out, next to a round-trip whose consumer threw
C1_Witness ==
    /\ \E i \in DOMAIN roundTrips :
          /\ roundTrips[i].settledBy = "timeout"
          /\ roundTrips[i].calls = <<RejectCall(roundTrips[i].kind)>>
    /\ \E i \in DOMAIN roundTrips : roundTrips[i].settledBy = "throw"

(***************************************************************************)
(* The client: connection, reconnect loop and event batching               *)
(***************************************************************************)

\* the fields handleEvent and flushQueue work on
Batching == [queue |-> queue, timer |-> timer, lastFlush |-> lastFlush,
             received |-> received, delivered |-> delivered]

SetBatching(b) ==
    /\ queue' = b.queue
    /\ timer' = b.timer
    /\ lastFlush' = b.lastFlush
    /\ received' = b.received
    /\ delivered' = b.delivered

\* flushQueue that emits the queue and keeps it
FlushQueueKeeping(b) ==
    IF Len(b.queue) = 0 THEN b
    ELSE [b EXCEPT !.delivered = @ \o b.queue, !.timer = -1, !.lastFlush = now]

\* HeadlessClient.flushQueue
FlushQueue(b) ==
    IF Len(b.queue) = 0 THEN b
    ELSE [b EXCEPT !.delivered = @ \o b.queue, !.queue = <<>>,
                   !.timer = -1, !.lastFlush = now]

\* handleEvent that queues the event and starts no timer inside the interval
HandleEventWithoutTimer(b, event) ==
    LET pushed == [b EXCEPT
                     !.queue = Append(@, [n |-> Len(b.received) + 1, event |-> event]),
                     !.received = Append(@, event)]
    IN  IF pushed.timer # -1 THEN pushed
        ELSE IF now - pushed.lastFlush < BatchInterval
        THEN pushed
        ELSE FlushQueue(pushed)

\* HeadlessClient.handleEvent
HandleEvent(b, event) ==
    LET pushed == [b EXCEPT
                     !.queue = Append(@, [n |-> Len(b.received) + 1, event |-> event]),
                     !.received = Append(@, event)]
    IN  IF pushed.timer # -1 THEN pushed
        ELSE IF now - pushed.lastFlush < BatchInterval
        THEN [pushed EXCEPT !.timer = now + BatchInterval]
        ELSE FlushQueue(pushed)

\* the custom event source calls every registered handler with the event
RECURSIVE HandleEventTimes(_, _, _)
HandleEventTimes(b, event, times) ==
    IF times = 0 THEN b ELSE HandleEventTimes(HandleEvent(b, event), event, times - 1)

\* a signal of the client's emitter: connected, disconnected, error,
\* reconnecting and reconnected; attempt is 0 for a signal that carries none
Signal(name, attempt) == [signal |-> name, attempt |-> attempt]

\* a backoff delay that is not capped
GetBackoffDelayUncapped(attempt) ==
    250 * 2 ^ (IF attempt - 1 > 0 THEN attempt - 1 ELSE 0)

\* getBackoffDelay: Math.min(250 * 2 ** Math.max(0, attempt - 1), 5000)
GetBackoffDelay(attempt) ==
    LET doubled == 250 * 2 ^ (IF attempt - 1 > 0 THEN attempt - 1 ELSE 0)
    IN  IF doubled < 5000 THEN doubled ELSE 5000

\* the delay a loop suspended at await this.delay(...) is waiting for
Delay(loop) == IF loop.pc = "backoff" THEN GetBackoffDelay(loop.attempt) ELSE 0

\* a runSseLoop invocation: the captured AbortController, its attempt
\* counter, where it is suspended, the events its subscription has
\* buffered, the subscribe calls it has made, its failures and stream
\* terminations, and the subscribe calls that resolved
Loop(abort, attempt, pc, stream, subscribes, ended, resolved) ==
    [abort |-> abort, attempt |-> attempt, pc |-> pc, stream |-> stream,
     subscribes |-> subscribes, ended |-> ended, resolved |-> resolved]

\* the loop left by break: nothing of it is read again
Exited(loop) == Loop(loop.abort, 0, "done", <<>>, loop.subscribes, loop.ended, 0)

\* a loop that returns after a termination or failure instead of going round
GiveUp(loop) == Loop(loop.abort, 0, "done", <<>>, loop.subscribes, loop.ended + 1, 0)

\* attempt += 1 and back to the top of while: reconnecting is emitted and
\* the loop awaits the backoff delay
Retry(loop) ==
    Loop(loop.abort, loop.attempt + 1, "backoff", <<>>, loop.subscribes, loop.ended + 1,
         loop.resolved)

LiveLoops == {l \in DOMAIN loops : loops[l].pc # "done" /\ loops[l].abort \notin aborted}

batchVars == <<queue, timer, lastFlush, received, delivered>>

ClientIdle ==
    /\ UNCHANGED storeVars
    /\ UNCHANGED routerVars

\* connect() up to await resolveClient(); on a connected client it returns at once
ConnectBegin ==
    /\ ~connected
    /\ controllers < MaxConnects
    /\ controllers' = controllers + 1
    /\ abortController' = controllers + 1
    /\ connects' = connects + 1
    /\ signals' = <<>>
    /\ UNCHANGED <<connected, loopActive, aborted, unsubscribe, sdkSet, now, useEvents,
                   loops, subscriptions, subscribeCalls, sourceEvents, failures,
                   rejected>>
    /\ UNCHANGED batchVars
    /\ ClientIdle

\* a failed connect() that leaves the cancellation handle in place
ConnectFailsKeepingHandle ==
    /\ connects > 0
    /\ connects' = connects - 1
    /\ signals' = <<Signal("error", 0)>>
    /\ rejected' = rejected + 1
    /\ UNCHANGED <<connected, loopActive, abortController, aborted, controllers,
                   unsubscribe, sdkSet, now, useEvents, loops, subscriptions,
                   subscribeCalls, sourceEvents, failures>>
    /\ UNCHANGED batchVars
    /\ ClientIdle

\* resolveClient() rejects: the catch block of connect(), which emits error
\* and rethrows
ConnectFails ==
    /\ connects > 0
    /\ connects' = connects - 1
    /\ abortController' = 0
    /\ signals' = <<Signal("error", 0)>>
    /\ rejected' = rejected + 1
    /\ UNCHANGED <<connected, loopActive, aborted, controllers, unsubscribe, sdkSet, now,
                   useEvents, loops, subscriptions, subscribeCalls, sourceEvents, failures>>
    /\ UNCHANGED batchVars
    /\ ClientIdle

\* resolveClient() resolves: the rest of connect(), with runSseLoop up to
\* its first await
ConnectResumes ==
    /\ connects > 0
    /\ connects' = connects - 1
    /\ sdkSet' = TRUE
    /\ connected' = TRUE
    /\ signals' = <<Signal("connected", 0)>>
    /\ IF useEvents
       THEN /\ subscribeCalls' = subscribeCalls + 1
            /\ subscriptions' = subscriptions \cup {subscribeCalls + 1}
            /\ unsubscribe' = subscribeCalls + 1
            /\ UNCHANGED <<loopActive, loops>>
       ELSE /\ UNCHANGED <<subscriptions, unsubscribe>>
            /\ IF loopActive \/ abortController = 0
               THEN UNCHANGED <<loopActive, loops, subscribeCalls>>
               ELSE /\ loopActive' = TRUE
                    /\ loops' = Append(loops, Loop(abortController, 0, "subscribing", <<>>, 1, 0, 0))
                    /\ subscribeCalls' = subscribeCalls + 1
    /\ UNCHANGED <<abortController, aborted, controllers, now, useEvents, sourceEvents,
                   failures,
                   rejected>>
    /\ UNCHANGED batchVars
    /\ ClientIdle

\* HeadlessClient.disconnect on a connected client
Disconnect ==
    /\ connected
    /\ connected' = FALSE
    /\ subscriptions' = subscriptions \ {unsubscribe}
    /\ unsubscribe' = 0
    /\ aborted' = IF abortController # 0 THEN aborted \cup {abortController} ELSE aborted
    /\ abortController' = 0
    /\ loopActive' = FALSE
    /\ timer' = -1
    /\ queue' = <<>>
    /\ lastFlush' = 0
    /\ signals' = <<Signal("disconnected", 0)>>
    /\ UNCHANGED <<received, delivered, controllers, sdkSet, now, useEvents, connects,
                   loops, subscribeCalls, sourceEvents, failures,
                   rejected>>
    /\ ClientIdle

\* the remote service produces an event: every open stream buffers it, the
\* custom event source calls its handlers
ServerEmits ==
    /\ sourceEvents < MaxEvents
    /\ sourceEvents' = sourceEvents + 1
    /\ signals' = <<>>
    /\ loops' = [l \in DOMAIN loops |->
                    IF l \in LiveLoops /\ loops[l].pc = "streaming"
                    THEN [loops[l] EXCEPT !.stream = Append(@, sourceEvents + 1)]
                    ELSE loops[l]]
    /\ SetBatching(HandleEventTimes(Batching, sourceEvents + 1, Cardinality(subscriptions)))
    /\ UNCHANGED <<connected, loopActive, abortController, aborted, controllers, unsubscribe,
                   sdkSet, now, useEvents, connects, subscriptions, subscribeCalls, failures,
                   rejected>>
    /\ ClientIdle

LoopStep(l, loop) ==
    /\ loops' = [loops EXCEPT ![l] = loop]
    /\ loopActive' = IF loop.pc = "done" THEN FALSE ELSE loopActive
    /\ UNCHANGED <<connected, abortController, aborted, controllers, unsubscribe, sdkSet,
                   now, useEvents, connects, subscriptions, sourceEvents,
                   rejected>>
    /\ ClientIdle

\* a subscribe call that resolves and leaves the attempt counter as it is
SubscribeReturnsKeepingAttempt(l) ==
    /\ l \in DOMAIN loops
    /\ loops[l].pc = "subscribing"
    /\ LoopStep(l, Loop(loops[l].abort, loops[l].attempt, "streaming", <<>>,
                        loops[l].subscribes, loops[l].ended, loops[l].resolved + 1))
    /\ signals' = IF loops[l].attempt > 0
                  THEN <<Signal("reconnected", loops[l].attempt)>>
                  ELSE <<>>
    /\ UNCHANGED <<subscribeCalls, failures>>
    /\ UNCHANGED batchVars

\* await this._sdk.event.subscribe(...) resolves: reconnected after a
\* failure, attempt = 0, for await begins
SubscribeReturns(l) ==
    /\ l \in DOMAIN loops
    /\ loops[l].pc = "subscribing"
    /\ LoopStep(l, Loop(loops[l].abort, 0, "streaming", <<>>, loops[l].subscribes,
                        loops[l].ended, loops[l].resolved + 1))
    /\ signals' = IF loops[l].attempt > 0
                  THEN <<Signal("reconnected", loops[l].attempt)>>
                  ELSE <<>>
    /\ UNCHANGED <<subscribeCalls, failures>>
    /\ UNCHANGED batchVars

\* await this._sdk.event.subscribe(...) rejects: the catch block, and the
\* top of the next iteration, where reconnecting is emitted; at most cap
\* failures are explored
SubscribeFailsWithin(l, cap) ==
    /\ l \in DOMAIN loops
    /\ loops[l].pc = "subscribing"
    /\ IF loops[l].abort \in aborted
       THEN /\ LoopStep(l, Exited(loops[l]))
            /\ signals' = <<>>
            /\ UNCHANGED failures
       ELSE /\ failures < cap
            /\ LoopStep(l, Retry(loops[l]))
            /\ signals' = <<Signal("error", 0),
                            Signal("reconnecting", loops[l].attempt + 1)>>
            /\ failures' = failures + 1
    /\ UNCHANGED subscribeCalls
    /\ UNCHANGED batchVars

SubscribeFails(l) == SubscribeFailsWithin(l, MaxFailures)

\* the backoff delay elapses: break when aborted, else the next subscribe call
BackoffElapses(l) ==
    /\ l \in DOMAIN loops
    /\ loops[l].pc = "backoff"
    /\ IF loops[l].abort \in aborted
       THEN LoopStep(l, Exited(loops[l])) /\ UNCHANGED subscribeCalls
       ELSE /\ LoopStep(l, Loop(loops[l].abort, loops[l].attempt, "subscribing", <<>>,
                                loops[l].subscribes + 1, loops[l].ended,
                                loops[l].resolved))
            /\ subscribeCalls' = subscribeCalls + 1
    /\ signals' = <<>>
    /\ UNCHANGED failures
    /\ UNCHANGED batchVars

\* for await yields the next buffered event: handleEvent(event)
StreamYields(l) ==
    /\ l \in DOMAIN loops
    /\ loops[l].pc = "streaming"
    /\ loops[l].stream # <<>>
    /\ LoopStep(l, [loops[l] EXCEPT !.stream = Tail(@)])
    /\ SetBatching(HandleEvent(Batching, Head(loops[l].stream)))
    /\ signals' = <<>>
    /\ UNCHANGED <<subscribeCalls, failures>>

\* the stream ends (flushQueue, then break or attempt += 1) or its iteration
\* throws (the catch block); an aborted stream drops what it has buffered;
\* at most cap failures are explored
StreamEndsWithin(l, cap) ==
    /\ l \in DOMAIN loops
    /\ loops[l].pc = "streaming"
    /\ \E thrown \in BOOLEAN :
          /\ SetBatching(IF thrown THEN Batching ELSE FlushQueue(Batching))
          /\ IF loops[l].abort \in aborted
             THEN /\ LoopStep(l, Exited(loops[l]))
                  /\ signals' = <<>>
                  /\ UNCHANGED failures
             ELSE /\ failures < cap
                  /\ loops[l].stream = <<>>
                  /\ LoopStep(l, Retry(loops[l]))
                  /\ signals' = IF thrown
                                THEN <<Signal("error", 0),
                                       Signal("reconnecting", loops[l].attempt + 1)>>
                                ELSE <<Signal("reconnecting", loops[l].attempt + 1)>>
                  /\ failures' = failures + 1
    /\ UNCHANGED subscribeCalls

StreamEnds(l) == StreamEndsWithin(l, MaxFailures)

\* the timer handleEvent set fires: flushQueue
TimerFires ==
    /\ timer # -1
    /\ now >= timer
    /\ SetBatching(FlushQueue(Batching))
    /\ signals' = <<>>
    /\ UNCHANGED <<connected, loopActive, abortController, aborted, controllers, unsubscribe,
                   sdkSet, now, useEvents, connects, loops, subscriptions, subscribeCalls,
                   sourceEvents, failures,
                   rejected>>
    /\ ClientIdle

\* time passes
Tick ==
    /\ now < BatchInterval + MaxTicks
    /\ now' = now + 1
    /\ signals' = <<>>
    /\ UNCHANGED <<connected, loopActive, abortController, aborted, controllers, unsubscribe,
                   sdkSet, useEvents, connects, loops, subscriptions, subscribeCalls,
                   sourceEvents, failures,
                   rejected>>
    /\ UNCHANGED batchVars
    /\ ClientIdle

InitClient ==
    /\ InitStoreVars
    /\ InitRouterVars({"a"}, None)
    /\ \E events \in BOOLEAN : InitClientVars(events)

NextClient ==
    \/ ConnectBegin
    \/ ConnectFails
    \/ ConnectResumes
    \/ Disconnect
    \/ ServerEmits
    \/ \E l \in 1..MaxConnects : SubscribeReturns(l)
    \/ \E l \in 1..MaxConnects : SubscribeFails(l)
    \/ \E l \in 1..MaxConnects : BackoffElapses(l)
    \/ \E l \in 1..MaxConnects : StreamYields(l)
    \/ \E l \in 1..MaxConnects : StreamEnds(l)
    \/ TimerFires
    \/ Tick

\* the backoff delay of every loop elapses
SpecClient ==
    InitClient /\ [][NextClient]_vars /\ \A l \in 1..MaxConnects : WF_vars(BackoffElapses(l))

\* C4: the receipts the client delivers to subscribers are the events it
\* received, in the order of their receipt: no two are delivered in swapped
\* order and none is delivered twice, within a batch, across batches and
\* across reconnections.
C4_DeliveredInReceivedOrder ==
    /\ \A p \in DOMAIN delivered :
          /\ delivered[p].n \in DOMAIN received
          /\ delivered[p].event = received[delivered[p].n]
    /\ \A p, q \in DOMAIN delivered : p < q => delivered[p].n < delivered[q].n

\* C4 happens: one loop has delivered an event, lost its stream, subscribed
\* again and delivered a second event, a flush having waited for the interval
C4_Witness ==
    /\ ~useEvents
    /\ Len(delivered) = MaxEvents
    /\ lastFlush > BatchInterval
    /\ \E l \in DOMAIN loops : loops[l].subscribes >= 2 /\ loops[l].abort \notin aborted

\* C9: under any interleaving of connect() and disconnect() calls the client
\* holds at most one live connection (stream loops whose handle is not
\* cancelled plus event-source subscriptions), and no receipt is delivered twice.
C9_AtMostOneLiveConnection ==
    /\ Cardinality(LiveLoops) + Cardinality(subscriptions) <= 1
    /\ \A p, q \in DOMAIN delivered : p # q => delivered[p].n # delivered[q].n

C11_LoopSilentAfterDisconnect ==
    [][\A l \in DOMAIN loops :
          loops[l].abort \in aborted
          => /\ loops'[l].subscribes = loops[l].subscribes
             /\ loops'[l].ended = loops[l].ended
             /\ ~(/\ loops[l].pc = "subscribing"
                  /\ loops[l].attempt > 0
                  /\ loops'[l].pc = "streaming")
      ]_vars


(***************************************************************************)
(* Dispatch router: prompt origins and the userMessage subscription        *)
(***************************************************************************)

\* the registered consumers that implement the optional onInboundMessage
InboundAdapterIds == {"a"}

\* ChannelAdapter.channel
Channel(adapterID) == IF adapterID = "a" THEN "console" ELSE "chat"

\* the origin of a user message nobody prompted through the router
GenericOrigin == [adapterId |-> "tui", channel |-> "terminal"]

\* HeadlessRouter.resolveOrigin
ResolveOrigin(adapterId) ==
    IF adapterId \in adapters
    THEN [adapterId |-> adapterId, channel |-> Channel(adapterId)]
    ELSE [adapterId |-> adapterId, channel |-> "unknown"]

\* HeadlessRouter.queuePromptOrigin
QueuePromptOrigin(origins, sessionID, adapterID) ==
    Put(origins, sessionID, Append(Get(origins, sessionID), adapterID))

\* HeadlessRouter.shiftPromptOrigin: the origin taken, None for undefined,
\* and the map it leaves
ShiftPromptOrigin(origins, sessionID) ==
    LET queued == Get(origins, sessionID)
    IN  IF queued = <<>> THEN [origin |-> None, pending |-> origins]
        ELSE [origin |-> Head(queued),
              pending |-> IF Tail(queued) = <<>> THEN Delete(origins, {sessionID})
                          ELSE Put(origins, sessionID, Tail(queued))]

\* a userMessage subscription that hands the origin consumer its own prompt
HandleUserMessageEchoing(sessionID) ==
    LET adapter == GetAdapter(sessionID)
        shifted == ShiftPromptOrigin(pendingPromptOrigins, sessionID)
    IN  IF adapter = None \/ adapter \notin InboundAdapterIds
        THEN [pending |-> pendingPromptOrigins, invoked |-> {}, origin |-> None]
        ELSE [pending |-> shifted.pending, invoked |-> {adapter},
              origin |-> IF shifted.origin # None THEN ResolveOrigin(shifted.origin)
                         ELSE GenericOrigin]

\* the "userMessage" subscription: the consumers whose onInboundMessage is
\* invoked, the origin handed to them and the origins left pending
HandleUserMessage(sessionID) ==
    LET adapter == GetAdapter(sessionID)
        shifted == ShiftPromptOrigin(pendingPromptOrigins, sessionID)
    IN  IF adapter = None \/ adapter \notin InboundAdapterIds
        THEN [pending |-> pendingPromptOrigins, invoked |-> {}, origin |-> None]
        ELSE IF shifted.origin # None /\ shifted.origin = adapter
        THEN [pending |-> shifted.pending, invoked |-> {}, origin |-> None]
        ELSE [pending |-> shifted.pending, invoked |-> {adapter},
              origin |-> IF shifted.origin # None THEN ResolveOrigin(shifted.origin)
                         ELSE GenericOrigin]

PromptersSince(sessionID) ==
    IF sessionID \in DOMAIN promptsSince THEN promptsSince[sessionID] ELSE {}

DispatchIdle ==
    /\ UNCHANGED storeVars
    /\ UNCHANGED clientVars
    /\ UNCHANGED <<adapters, defaultAdapterId, sessionAdapters, roundTrips, toastCalls,
                   subscribed, lastCallback, shutdownCalled>>

\* HeadlessRouter.promptWithOrigin for a registered consumer: the origin is
\* queued before the prompt is sent
PromptWithOrigin ==
    \E sessionID \in SessionIds, adapterID \in adapters :
        /\ Len(Get(pendingPromptOrigins, sessionID)) < MaxOrigins
        /\ Len(Get(idealOrigins, sessionID)) < MaxOrigins
        /\ pendingPromptOrigins' = QueuePromptOrigin(pendingPromptOrigins, sessionID, adapterID)
        /\ idealOrigins' = QueuePromptOrigin(idealOrigins, sessionID, adapterID)
        /\ promptsSince' = Put(promptsSince, sessionID,
                               PromptersSince(sessionID) \cup {adapterID})
        /\ UNCHANGED lastInbound
        /\ DispatchIdle

\* HeadlessRouter.promptWithOrigin whose client.prompt call rejects: the
\* origin was queued before the call and stays queued
PromptWithOriginFails ==
    \E sessionID \in SessionIds, adapterID \in adapters :
        /\ Len(Get(pendingPromptOrigins, sessionID)) < MaxOrigins
        /\ pendingPromptOrigins' = QueuePromptOrigin(pendingPromptOrigins, sessionID, adapterID)
        /\ UNCHANGED <<idealOrigins, promptsSince, lastInbound>>
        /\ DispatchIdle

\* the store emits "userMessage" for a session
UserMessageNotified ==
    \E sessionID \in SessionIds :
        LET handled == HandleUserMessage(sessionID)
            ideal == ShiftPromptOrigin(idealOrigins, sessionID)
        IN  /\ subscribed
            /\ lastInbound.n < MaxNotifications
            /\ pendingPromptOrigins' = handled.pending
            /\ idealOrigins' = ideal.pending
            /\ promptsSince' = Delete(promptsSince, {sessionID})
            /\ lastInbound' = [n |-> lastInbound.n + 1,
                               sessionID |-> sessionID,
                               target |-> GetAdapter(sessionID),
                               head |-> ShiftPromptOrigin(pendingPromptOrigins, sessionID).origin,
                               expected |-> ideal.origin,
                               prompters |-> PromptersSince(sessionID),
                               invoked |-> handled.invoked,
                               origin |-> handled.origin]
            /\ DispatchIdle

\* the "sessionDeleted" subscription
SessionDeletedNotified ==
    \E sessionID \in SessionIds :
        /\ subscribed
        /\ pendingPromptOrigins' = Delete(pendingPromptOrigins, {sessionID})
        /\ idealOrigins' = Delete(idealOrigins, {sessionID})
        /\ promptsSince' = Delete(promptsSince, {sessionID})
        /\ UNCHANGED lastInbound
        /\ DispatchIdle

\* the notifications whose subscription calls one callback of the resolved
\* consumer and waits for nothing
FireAndForgetKinds ==
    {"assistantMessage", "assistantMessageComplete", "sessionStatus", "todo", "sessionError"}

\* a subscription of HeadlessRouter.subscribe for a fire-and-forget
\* notification: the consumer resolved, the consumers whose callback is
\* invoked and whether the subscription raises what the callback throws
Callback(kind, sessionID, beh) ==
    LET adapter == GetAdapter(sessionID)
    IN  [kind |-> kind, sessionID |-> sessionID, target |-> adapter,
         invoked |-> IF adapter = None THEN {} ELSE {adapter},
         raised |-> HandlerThrows(kind, sessionID, beh)]

\* the store emits a fire-and-forget notification to the router's subscription
Notified ==
    \E kind \in FireAndForgetKinds, sessionID \in SessionIds, beh \in {"ok", "throw"} :
        /\ subscribed
        /\ lastCallback' = Callback(kind, sessionID, beh)
        /\ UNCHANGED <<adapters, defaultAdapterId, sessionAdapters, roundTrips,
                       pendingPromptOrigins, idealOrigins, promptsSince, lastInbound,
                       toastCalls, subscribed, shutdownCalled>>
        /\ UNCHANGED storeVars
        /\ UNCHANGED clientVars

\* a shutdown that leaves the store subscriptions in place
ShutdownKeepingSubscriptions ==
    /\ ~shutdownCalled
    /\ shutdownCalled' = TRUE
    /\ UNCHANGED <<adapters, defaultAdapterId, sessionAdapters, roundTrips,
                   pendingPromptOrigins, idealOrigins, promptsSince, lastInbound,
                   toastCalls, subscribed, lastCallback>>
    /\ UNCHANGED storeVars
    /\ UNCHANGED clientVars

\* HeadlessRouter.shutdown: every store subscription is removed
Shutdown ==
    /\ ~shutdownCalled
    /\ shutdownCalled' = TRUE
    /\ subscribed' = FALSE
    /\ UNCHANGED <<adapters, defaultAdapterId, sessionAdapters, roundTrips,
                   pendingPromptOrigins, idealOrigins, promptsSince, lastInbound,
                   toastCalls, lastCallback>>
    /\ UNCHANGED storeVars
    /\ UNCHANGED clientVars

InitDispatch ==
    /\ InitStoreVars
    /\ \E config \in RouterConfigs : InitRouterVars(config[1], config[2])
    /\ InitClientVars(FALSE)

NextDispatch ==
    \/ SetSessionAdapter
    \/ ClearSessionAdapter
    \/ PromptWithOrigin
    \/ UserMessageNotified
    \/ SessionDeletedNotified

SpecDispatch == InitDispatch /\ [][NextDispatch]_vars

\* toasts, which go to every registered consumer whatever the sessions map to
NextToast ==
    \/ SetSessionAdapter
    \/ ClearSessionAdapter
    \/ ToastOrSessionError

SpecToast == InitDispatch /\ [][NextToast]_vars

C13_OriginsConsumedInOrder ==
    (lastInbound.n > 0 /\ lastInbound.target \in InboundAdapterIds)
    => IF lastInbound.expected = None
       THEN /\ lastInbound.invoked = {lastInbound.target}
            /\ lastInbound.origin = GenericOrigin
       ELSE IF lastInbound.expected = lastInbound.target
       THEN lastInbound.invoked = {}
       ELSE /\ lastInbound.invoked = {lastInbound.target}
            /\ lastInbound.origin.adapterId = lastInbound.expected


(***************************************************************************)
(* Dispatch router: round-trips, one by one                                *)
(***************************************************************************)

\* C14: a permission or question notification for a session that resolves
\* to no consumer is answered with the reject reply at once: the round-trip
\* starts with the reject call made, no consumer handler invoked and no
\* timer started.
C14_NoConsumerRejectsAtOnce ==
    [][Len(roundTrips') = Len(roundTrips) + 1
       => LET trip == roundTrips'[Len(roundTrips')]
          IN  GetAdapter(trip.sessionID) = None
              => /\ trip.calls = <<IF trip.kind = "permission"
                                   THEN [op |-> "permission.reply", reply |-> "reject",
                                         message |-> None]
                                   ELSE [op |-> "question.reject"]>>
                 /\ ~trip.invoked
                 /\ ~trip.timerArmed
      ]_vars

\* C14 happens: a question for a session without a consumer was rejected and
\* the reject call has returned
C14_Witness ==
    \E i \in DOMAIN roundTrips :
        /\ roundTrips[i].kind = "question"
        /\ roundTrips[i].settledBy = "noAdapter"
        /\ GetAdapter(roundTrips[i].sessionID) = None
        /\ roundTrips[i].state = "done"
        /\ roundTrips[i].calls = <<[op |-> "question.reject"]>>

\* C15: when the consumer answers before the timeout, the remote call made
\* for the request carries exactly the answer: a permission reply with the
\* consumer's reply value and message, a question reply with the consumer's
\* answers, a question reject for a rejection.
C15_AnswerForwardedExactly ==
    \A i \in DOMAIN roundTrips :
        roundTrips[i].settledBy = "answer"
        => LET trip == roundTrips[i]
               call == trip.calls[1]
           IN  /\ trip.calls # <<>>
               /\ IF trip.kind = "permission"
                  THEN /\ call.op = "permission.reply"
                       /\ call.reply = trip.answer.reply
                       /\ call.message = trip.answer.message
                  ELSE IF "rejected" \in DOMAIN trip.answer
                  THEN call.op = "question.reject"
                  ELSE /\ call.op = "question.reply"
                       /\ call.answers = trip.answer.answers

\* C15 happens: a consumer allowed a permission for good, another answered a
\* question, and both calls went out
C15_Witness ==
    /\ \E i \in DOMAIN roundTrips :
          /\ roundTrips[i].kind = "permission"
          /\ roundTrips[i].settledBy = "answer"
          /\ roundTrips[i].answer.reply = "always"
          /\ roundTrips[i].state = "done"
    /\ \E i \in DOMAIN roundTrips :
          /\ roundTrips[i].kind = "question"
          /\ roundTrips[i].settledBy = "answer"
          /\ "answers" \in DOMAIN roundTrips[i].answer
          /\ roundTrips[i].state = "done"


\* C16: a round-trip waiting on a consumer that does not respond affects
\* only its own request: while it waits, further permission and question
\* notifications of any session are applied by the store and handed on, no
\* step of another round-trip changes it, and when its timeout fires the
\* reject reply goes out for it alone and every other round-trip is left
\* as it was.
C16_PendingRoundTripIsolated ==
    /\ [](\A i \in DOMAIN roundTrips :
            (/\ roundTrips[i].state = "waiting"
             /\ Len(roundTrips) < MaxRoundTrips
             /\ steps < MaxSteps)
            => (ENABLED PermissionAsked /\ ENABLED QuestionAsked))
    /\ [][\A i \in DOMAIN roundTrips :
            roundTrips[i].state = "waiting"
            => /\ (\E j \in DOMAIN roundTrips \ {i} : roundTrips'[j] # roundTrips[j])
                  => roundTrips'[i] = roundTrips[i]
               /\ roundTrips'[i].settledBy = "timeout"
                  => /\ roundTrips'[i].calls = <<RejectCall(roundTrips[i].kind)>>
                     /\ \A j \in DOMAIN roundTrips' \ {i} :
                           j \in DOMAIN roundTrips /\ roundTrips'[j] = roundTrips[j]
         ]_vars

\* C16 happens: the request of session 1 timed out and was rejected after a
\* later request of session 2 had been answered and forwarded
C16_Witness ==
    /\ Len(roundTrips) = 2
    /\ roundTrips[1].sessionID = 1
    /\ roundTrips[1].settledBy = "timeout"
    /\ roundTrips[1].calls = <<RejectCall(roundTrips[1].kind)>>
    /\ roundTrips[2].sessionID = 2
    /\ roundTrips[2].settledBy = "answer"
    /\ roundTrips[2].state = "done"
    /\ Len(roundTrips[2].calls) = 1
    /\ roundTrips[2].calls[1].op \in {"permission.reply", "question.reply"}

\* C17: a toast notification is delivered exactly once to every registered
\* consumer, whatever the sessions are mapped to and whichever consumers'
\* handlers throw.
C17_ToastReachesEveryConsumer ==
    toastCalls # NoToast
    => /\ DOMAIN toastCalls.calls = adapters
       /\ \A a \in adapters : toastCalls.calls[a] = 1

\* C17 happens: the handler of the first of two consumers threw, the session
\* of the second is mapped, and both got the toast once
C17_Witness ==
    /\ adapters = {"a", "b"}
    /\ "a" \in toastCalls.throwers
    /\ sessionAdapters # <<>>
    /\ toastCalls.calls["b"] = 1
    /\ toastCalls.calls["a"] = 1


(***************************************************************************)
(* State store: upserts of one message, the cap, completion                *)
(***************************************************************************)

\* the message with an id in a message map, NoMessage when it is not there
MessageIn(messages, sessionID, messageID) ==
    IF sessionID \notin DOMAIN messages THEN NoMessage
    ELSE LET match == BinarySearch(messages[sessionID], messageID)
         IN  IF match.found THEN messages[sessionID][match.index + 1] ELSE NoMessage

\* C18: when an assistant message that is in the store is upserted again,
\* the running cost of its session grows by exactly the difference of the
\* two cumulative costs when the cost did not decrease, and so does each of
\* the five token aggregates for its own field.
C18_SecondUpsertAddsDifference ==
    [][\A sessionID \in SessionIds :
         \A messageID \in MessageIdsOf(sessionID) :
            LET previous == MessageIn(message, sessionID, messageID)
                current == MessageIn(message', sessionID, messageID)
            IN  (/\ previous.role = "assistant"
                 /\ current.role = "assistant"
                 /\ current # previous
                 /\ syncInFlight' = syncInFlight)
                => /\ previous.cost <= current.cost
                      => SessionCost(session_cost', sessionID)
                            - SessionCost(session_cost, sessionID)
                         = current.cost - previous.cost
                   /\ \A f \in TokenFields :
                         previous.tokens[f] <= current.tokens[f]
                         => SessionTokens(session_tokens', sessionID)[f]
                               - SessionTokens(session_tokens, sessionID)[f]
                            = current.tokens[f] - previous.tokens[f]
      ]_vars


\* message and part upserts only: no removal, no full sync
NextUpserts ==
    \/ MessageUpdated
    \/ PartUpdated

SpecUpserts == InitStore /\ [][NextUpserts]_vars

\* the ids upserted so far for a session: those in its list and those evicted
UpsertedIds(sessionID) ==
    Ids(Get(message, sessionID)) \cup (removedMessages \cap MessageIdsOf(sessionID))

\* the n greatest of a set of ids
RECURSIVE Greatest(_, _)
Greatest(ids, n) ==
    IF n = 0 \/ ids = {} THEN {}
    ELSE LET top == CHOOSE x \in ids : \A y \in ids : y <= x
         IN  {top} \cup Greatest(ids \ {top}, n - 1)

C20_CompleteEmittedOnce ==
    \A messageID \in DOMAIN completions : completions[messageID] <= 1


(***************************************************************************)
(* State store: session status notifications                               *)
(***************************************************************************)

\* the events C21 names, fed to a store that was never bootstrapped
NextStatus ==
    \/ SessionUpdated
    \/ SessionDeleted
    \/ SessionStatus
    \/ MessageUpdated
    \/ MessageRemoved
    \/ Disposed
    \/ SyncStart
    \/ SyncFail
    \/ SyncSession

SpecStatus == InitStore /\ [][NextStatus]_vars

\* C21: a sessionStatus notification never carries the status of the
\* notification emitted before it for the same session.
C21_StatusOnlyOnTransition ==
    [][\A sessionID \in DOMAIN derivedStatus' :
          (/\ sessionID \in DOMAIN lastStatus
           /\ \/ sessionID \notin DOMAIN derivedStatus
              \/ derivedStatus'[sessionID] # derivedStatus[sessionID])
          => derivedStatus'[sessionID] # lastStatus[sessionID]
      ]_vars


(***************************************************************************)
(* Dispatch router: consumer resolution and shutdown                       *)
(***************************************************************************)

\* session mappings and fire-and-forget notifications
NextResolve ==
    \/ SetSessionAdapter
    \/ ClearSessionAdapter
    \/ Notified

SpecResolve == InitDispatch /\ [][NextResolve]_vars

\* the consumer C22 names for a session
ResolvedConsumer(sessionID) ==
    IF sessionID \in DOMAIN sessionAdapters THEN sessionAdapters[sessionID]
    ELSE IF defaultAdapterId # None THEN defaultAdapterId
    ELSE IF \E a \in adapters : adapters = {a} THEN CHOOSE a \in adapters : TRUE
    ELSE None

NextShutdown ==
    \/ Shutdown
    \/ PermissionAsked
    \/ QuestionAsked
    \/ Notified
    \/ ToastOrSessionError
    \/ UserMessageNotified

SpecShutdown == InitDispatch /\ [][NextShutdown]_vars

\* C28: once shutdown() has removed the store subscriptions, no store
\* notification invokes a consumer callback (fire-and-forget, inbound
\* message or toast) and none starts a round-trip, with its handler call or
\* its reply call.
C28_SilentAfterShutdown ==
    [][shutdownCalled
       => /\ Len(roundTrips') = Len(roundTrips)
          /\ lastCallback' = lastCallback
          /\ lastInbound' = lastInbound
          /\ toastCalls' = toastCalls
      ]_vars

\* C28 happens: after shutdown() the store applied a permission request of
\* a session with a consumer, and no round-trip was started for it
C28_Witness ==
    /\ shutdownCalled
    /\ ~subscribed
    /\ adapters # {}
    /\ roundTrips = <<>>
    /\ \E sessionID \in DOMAIN permission :
          /\ permission[sessionID] # <<>>
          /\ GetAdapter(sessionID) # None
    /\ steps = MaxSteps


(***************************************************************************)
(* The reconnect loop over a long run of failures                          *)
(***************************************************************************)

NextBackoff ==
    \/ ConnectBegin
    \/ ConnectResumes
    \/ \E l \in 1..MaxConnects : SubscribeReturns(l)
    \/ \E l \in 1..MaxConnects : SubscribeFailsWithin(l, MaxAttempts)
    \/ \E l \in 1..MaxConnects : BackoffElapses(l)
    \/ \E l \in 1..MaxConnects : StreamEndsWithin(l, MaxAttempts)

SpecBackoff == InitStore /\ [][NextBackoff]_vars

\* the delays the reconnect loop is to wait, by attempt
BackoffSequence(k) ==
    LET delays == <<250, 500, 1000, 2000, 4000, 5000, 5000>>
    IN  IF k <= Len(delays) THEN delays[k] ELSE 5000

\* C23: a loop that fails for the k-th time in a row since its last
\* successful subscribe (a rejected subscribe call after k - 1 failures, or
\* the end of the stream for k = 1) emits reconnecting with attempt k, and
\* the delay it then waits is 250, 500, 1000, 2000, 4000, 5000 ms and 5000
\* ms for every later attempt.
C23_BackoffSequence ==
    /\ [](\A l \in DOMAIN loops :
            loops[l].pc = "backoff"
            => /\ loops[l].attempt >= 1
               /\ Delay(loops[l]) = BackoffSequence(loops[l].attempt))
    /\ [][\A l \in DOMAIN loops :
              (loops[l].pc # "backoff" /\ loops'[l].pc = "backoff")
              => LET k == IF loops[l].pc = "subscribing" THEN loops[l].attempt + 1 ELSE 1
                 IN  /\ loops'[l].attempt = k
                     /\ signals' # <<>>
                     /\ signals'[Len(signals')] = Signal("reconnecting", k)
                     /\ \A i \in 1..Len(signals') - 1 : signals'[i].signal = "error"
         ]_vars

\* C23 happens: the seventh failure in a row has been signalled and the loop
\* waits 5000 ms for the second time
C23_Witness ==
    \E l \in DOMAIN loops :
        /\ loops[l].pc = "backoff"
        /\ loops[l].attempt = 7
        /\ loops[l].subscribes = 7
        /\ Delay(loops[l]) = 5000
        /\ signals = <<Signal("error", 0), Signal("reconnecting", 7)>>

\* a subscribe call of loop l resolves in the step
Resolves(l) == loops[l].pc = "subscribing" /\ loops'[l].pc = "streaming"

\* reconnected is among the signals of the step
ReconnectedEmitted == \E i \in DOMAIN signals' : signals'[i].signal = "reconnected"

\* a subscribe call that resolves after a failure emits reconnected once,
\* with the attempt number the loop's latest reconnecting signal carried and
\* the loop kept while it waited, and sets the attempt counter to zero;
\* nothing else emits reconnected
ReconnectedOnceWithAttempt ==
    /\ [](\A l \in DOMAIN loops : loops[l].pc = "streaming" => loops[l].attempt = 0)
    /\ [][/\ \A l \in DOMAIN loops :
               /\ (Resolves(l) /\ loops[l].attempt > 0)
                  => /\ signals' = <<Signal("reconnected", loops[l].attempt)>>
                     /\ loops'[l].attempt = 0
               /\ (loops[l].pc # "backoff" /\ loops'[l].pc = "backoff")
                  => signals'[Len(signals')] = Signal("reconnecting", loops'[l].attempt)
               /\ (loops[l].pc = "backoff" /\ loops'[l].pc = "subscribing")
                  => loops'[l].attempt = loops[l].attempt
          /\ ReconnectedEmitted
             => \E r \in DOMAIN loops : Resolves(r) /\ loops[r].attempt > 0
         ]_vars

\* C24 as it holds: a subscribe call that resolves after at least one
\* failure emits reconnected exactly once, with the attempt number of the
\* loop's preceding reconnecting signal, and resets the attempt counter, so
\* that the next failure is attempt 1; reconnected is not emitted when the
\* first subscribe call after connect() resolves.
C24_ReconnectedAfterFailure ==
    /\ ReconnectedOnceWithAttempt
    /\ [][\A l \in DOMAIN loops :
              (Resolves(l) /\ loops[l].subscribes = 1) => signals' = <<>>]_vars

\* C24 as stated: reconnected is emitted once after a failure, and never
\* for the first subscribe call that resolves after connect().
C24_NeverForFirstSuccess ==
    /\ ReconnectedOnceWithAttempt
    /\ [][\A l \in DOMAIN loops :
              (Resolves(l) /\ loops[l].resolved = 0) => ~ReconnectedEmitted]_vars

\* C24 happens: after two failures in a row the third subscribe call of the
\* loop resolved, and reconnected carried attempt 2
C24_Witness ==
    /\ signals = <<Signal("reconnected", 2)>>
    /\ \E l \in DOMAIN loops :
          /\ loops[l].pc = "streaming"
          /\ loops[l].attempt = 0
          /\ loops[l].subscribes = 3
          /\ loops[l].resolved = 1

\* C25: the flush timer handleEvent starts is due at the end of the batch
\* interval that began with the last flush (it runs for the remainder of
\* the interval), so that a queued event is delivered no later than one
\* interval after the previous flush; with no timer pending and a whole
\* interval elapsed nothing stays queued.
C25_TimerForRemainder ==
    /\ timer # -1 => timer <= lastFlush + BatchInterval
    /\ (timer = -1 /\ connected /\ now - lastFlush >= BatchInterval) => queue = <<>>

C27_DisconnectClosesConnection ==
    [][Disconnect
       => /\ signals' = <<Signal("disconnected", 0)>>
          /\ queue' = <<>>
          /\ timer' = -1
          /\ ~connected'
          /\ subscriptions' = {}
          /\ LiveLoops' = {}
     ]_vars


(***************************************************************************)
(* Bootstrap of the store, with connection resets                          *)
(***************************************************************************)

NextBootstrap ==
    \/ ConnectBegin
    \/ ConnectResumes
    \/ BootstrapCall
    \/ FetchReturns
    \/ BlockingReturns
    \/ AuxiliaryReturns
    \/ FetchFails
    \/ Disposed

SpecBootstrap == InitStore /\ [][NextBootstrap]_vars

\* the last fetch of a step of bootstrap i returns in the step
LastReturns(i, pc, next) ==
    /\ bootstraps[i].pc = pc
    /\ bootstraps[i].left = 1
    /\ bootstraps'[i].pc = next

\* C29: the status becomes partial only in the step in which the last
\* blocking fetch of a bootstrap returns, and complete only in the step in
\* which the last auxiliary fetch of a bootstrap returns, whose blocking
\* fetches have all returned before; the status of a complete store is never
\* moved to partial, whatever bootstrap is re-invoked on it.
C29_StatusFollowsFetches ==
    [][/\ (state_status' = "partial" /\ state_status # "partial")
          => \E i \in DOMAIN bootstraps : LastReturns(i, "blocking", "auxiliary")
       /\ (state_status' = "complete" /\ state_status # "complete")
          => \E i \in DOMAIN bootstraps : LastReturns(i, "auxiliary", "done")
       /\ state_status = "complete" => state_status' # "partial"
     ]_vars

\* C29 happens: a second bootstrap was called on the store the first had
\* completed; its blocking fetches have returned and the status is still
\* complete
C29_Witness ==
    /\ Len(bootstraps) = 2
    /\ bootstraps[1].pc = "done"
    /\ bootstraps[2].pc = "auxiliary"
    /\ bootstraps[2].found = "complete"
    /\ ~bootstraps[2].reset
    /\ state_status = "complete"

\* a fetch of bootstrap i fails in the step
Fails(i) == bootstraps[i].pc \in {"blocking", "auxiliary"} /\ bootstraps'[i].pc = "failed"

\* C30: whenever a fetch of a bootstrap fails, in the blocking or in the
\* auxiliary step, of a direct call or of the call a connection reset made,
\* an error notification is surfaced (the client's error signal or an error
\* toast) and the status keeps its value; the store then goes on applying
\* events and accepts the next bootstrap call.
C30_FailureSurfacedStatusKept ==
    /\ [][\A i \in DOMAIN bootstraps :
              Fails(i) => /\ bootstraps'[i].surfaced \in {"error", "toast"}
                          /\ state_status' = state_status
         ]_vars
    /\ []((\E i \in DOMAIN bootstraps : bootstraps[i].pc = "failed")
           => /\ steps < MaxSteps => ENABLED SessionUpdated
              /\ Len(bootstraps) < MaxBootstraps => ENABLED BootstrapCall)


(***************************************************************************)
(* Connection resets between bootstrap calls and session syncs             *)
(***************************************************************************)

NextReset ==
    \/ ConnectBegin
    \/ ConnectResumes
    \/ BootstrapCall
    \/ Disposed
    \/ SyncStart
    \/ SyncFail
    \/ SyncSession

SpecReset == InitStore /\ [][NextReset]_vars

AssistantIdsFetched(sessionID) ==
    {m \in Ids(Get(message', sessionID)) \cup {e.id : e \in lastEvicted'} :
        FetchedInfo(m).role = "assistant"}

RECURSIVE SumOver(_, _)
SumOver(ids, value) ==
    IF ids = {} THEN 0
    ELSE LET m == CHOOSE x \in ids : TRUE
         IN  value[m] + SumOver(ids \ {m}, value)

\* C32: a session.sync that returns sets the cost and every token field of
\* its session to the sum over the assistant messages of the whole fetched
\* history, retained or not, whatever the running values were, and marks
\* the session; a marked session starts no fetch, and only a connection
\* reset removes a mark.
C32_SyncRecomputesAndMarks ==
    /\ [][\A sessionID \in syncInFlight \ syncInFlight' :
              SyncSession
              => LET ids == AssistantIdsFetched(sessionID)
                     cost == [m \in ids |-> FetchedInfo(m).cost]
                 IN  /\ session_cost'[sessionID] = SumOver(ids, cost)
                     /\ \A f \in TokenFields :
                           session_tokens'[sessionID][f]
                           = SumOver(ids, [m \in ids |-> FetchedInfo(m).tokens[f]])
                     /\ sessionID \in fullSyncedSessions'
         ]_vars
    /\ [][~(fullSyncedSessions \subseteq fullSyncedSessions') => Disposed]_vars
    /\ [](SyncedSessionIds \subseteq fullSyncedSessions => ~ENABLED SyncStart)

\* C32 happens: the sync of session 1 fetched two assistant messages of
\* cost 1 each, one of them beyond the cap, and the session is marked with
\* a cost of 2
C32_Witness ==
    /\ 1 \in fullSyncedSessions
    /\ SessionCost(session_cost, 1) = 2
    /\ Len(Get(message, 1)) = MessageCap
    /\ \E e \in lastEvicted : SessionOfMessage(e.id) = 1
    /\ steps = 2


(***************************************************************************)
(* Pending permission and question requests                                *)
(***************************************************************************)

NextRequests ==
    \/ PermissionAsked
    \/ PermissionReplied
    \/ QuestionAsked
    \/ QuestionReplied

SpecRequests == InitStore /\ [][NextRequests]_vars

\* the list of a session after request id was asked: id added to its ids
AskedInto(before, after, sessionID, id) ==
    /\ Ids(Get(after, sessionID)) = Ids(Get(before, sessionID)) \cup {id}
    /\ \A other \in SessionIds \ {sessionID} : Get(after, other) = Get(before, other)

\* the lists after the reply of request id of a session: without it when it
\* was pending, unchanged when it was not
RepliedFrom(before, after, sessionID, id) ==
    IF id \in Ids(Get(before, sessionID))
    THEN /\ Ids(Get(after, sessionID)) = Ids(before[sessionID]) \ {id}
         /\ \A other \in SessionIds \ {sessionID} : Get(after, other) = Get(before, other)
    ELSE after = before

\* every request of a list belongs to the session and is there once
PendingOnce(lists) ==
    \A sessionID \in DOMAIN lists :
        /\ StrictlySorted(lists[sessionID])
        /\ \A i \in DOMAIN lists[sessionID] : lists[sessionID][i].sessionID = sessionID

\* C33: each asked event adds its request to the pending list of its
\* session and emits one notification with the session and the request
\* (the router starts one round-trip for it); each reply of a pending
\* request removes that request and nothing else; a reply of a request that
\* is not pending changes nothing; no list holds a request twice. So the
\* list of a session holds the requests asked and not yet replied.
C33_PendingRequestsTracked ==
    /\ [](PendingOnce(permission) /\ PendingOnce(question))
    /\ [][/\ Len(roundTrips') <= Len(roundTrips) + 1
          /\ Len(roundTrips') = Len(roundTrips) + 1
             => LET trip == roundTrips'[Len(roundTrips')]
                IN  IF trip.kind = "permission"
                    THEN /\ AskedInto(permission, permission', trip.sessionID, trip.requestID)
                         /\ question' = question
                    ELSE /\ AskedInto(question, question', trip.sessionID, trip.requestID)
                         /\ permission' = permission
          /\ \A sessionID \in SessionIds, id \in RequestIds :
                /\ PermissionRepliedFor(sessionID, id)
                   => /\ RepliedFrom(permission, permission', sessionID, id)
                      /\ roundTrips' = roundTrips
                /\ QuestionRepliedFor(sessionID, id)
                   => /\ RepliedFrom(question, question', sessionID, id)
                      /\ roundTrips' = roundTrips
          /\ Len(roundTrips') = Len(roundTrips)
             => \E sessionID \in SessionIds, id \in RequestIds :
                   \/ PermissionRepliedFor(sessionID, id)
                   \/ QuestionRepliedFor(sessionID, id)
         ]_vars

\* C33 happens: requests 1 and 2 of session 1 were asked, 1 was replied, and
\* request 2 alone is pending
C33_Witness ==
    /\ Len(roundTrips) = 2
    /\ roundTrips[1].kind = "permission" /\ roundTrips[1].requestID = 1
    /\ roundTrips[2].kind = "permission" /\ roundTrips[2].requestID = 2
    /\ roundTrips[1].sessionID = 1 /\ roundTrips[2].sessionID = 1
    /\ Ids(Get(permission, 1)) = {2}
    /\ steps = 3


(***************************************************************************)
(* One remote call for each round-trip                                     *)
(***************************************************************************)

\* C34: for each permission or question notification the router makes at
\* most one reply or reject call to the remote service, whoever settled the
\* round-trip and whether or not the remote call succeeded.
C34_AtMostOneRemoteCall ==
    \A i \in DOMAIN roundTrips : Len(roundTrips[i].calls) <= 1


(***************************************************************************)
(* Delivery after disconnect()                                             *)
(***************************************************************************)

\* C35: while the client is disconnected and no connect() call is under
\* way, no step delivers an event to a subscriber.
C35_NothingDeliveredWhileDisconnected ==
    [][(~connected /\ connects = 0 /\ ~connected' /\ connects' = 0)
       => delivered' = delivered]_vars


(***************************************************************************)
(* Every queued event is flushed                                           *)
(***************************************************************************)

\* time passes while the timer handleEvent set is pending
TimerWaits ==
    /\ timer # -1
    /\ now < timer
    /\ now' = now + 1
    /\ signals' = <<>>
    /\ UNCHANGED <<connected, loopActive, abortController, aborted, controllers, unsubscribe,
                   sdkSet, useEvents, connects, loops, subscriptions, subscribeCalls,
                   sourceEvents, failures, rejected>>
    /\ UNCHANGED batchVars
    /\ ClientIdle

NextFlush ==
    \/ ConnectBegin
    \/ ConnectResumes
    \/ Disconnect
    \/ ServerEmits
    \/ \E l \in 1..MaxConnects : SubscribeReturns(l)
    \/ \E l \in 1..MaxConnects : BackoffElapses(l)
    \/ \E l \in 1..MaxConnects : StreamYields(l)
    \/ \E l \in 1..MaxConnects : StreamEnds(l)
    \/ TimerFires
    \/ Tick
    \/ TimerWaits

\* a pending timer comes due and its callback runs
SpecFlush ==
    InitClient /\ [][NextFlush]_vars /\ WF_vars(TimerWaits) /\ WF_vars(TimerFires)

\* the receipts waiting in the queue, and those delivered
Queued(q) == {q[p].n : p \in DOMAIN q}

C37_SyncTouchesOnlyItsSession ==
    [][\A sessionID \in fullSyncedSessions' \ fullSyncedSessions :
          \A other \in SessionIds \ {sessionID} :
             /\ Get(message', other) = Get(message, other)
             /\ Get(todo', other) = Get(todo, other)
             /\ SessionCost(session_cost', other) = SessionCost(session_cost, other)
             /\ SessionTokens(session_tokens', other) = SessionTokens(session_tokens, other)
             /\ \A m \in MessageIdsOf(other) :
                   m \in DOMAIN part => (m \in DOMAIN part' /\ part'[m] = part[m])
      ]_vars


(***************************************************************************)
(* A reset while an older bootstrap is still fetching                      *)
(***************************************************************************)

\* C38: while the bootstrap the latest connection reset started has not
\* finished its auxiliary step, the status is not complete.
C38_CompleteWaitsForResetBootstrap ==
    \A i \in DOMAIN bootstraps :
        (/\ bootstraps[i].reset
         /\ bootstraps[i].pc \in {"blocking", "auxiliary"}
         /\ \A j \in DOMAIN bootstraps : j > i => ~bootstraps[j].reset)
        => state_status # "complete"


(***************************************************************************)
(* Queued origins and prompts that wait for their user message             *)
(***************************************************************************)

\* prompts that are sent or fail, and the user messages that follow
NextOrigins ==
    \/ SetSessionAdapter
    \/ PromptWithOrigin
    \/ PromptWithOriginFails
    \/ UserMessageNotified
    \/ SessionDeletedNotified

SpecOrigins == InitDispatch /\ [][NextOrigins]_vars

\* C39: for every session, the origins queued are at most the prompts sent
\* through promptWithOrigin whose user message has not been notified yet.
C39_OriginsBoundedByPrompts ==
    \A sessionID \in SessionIds :
        Len(Get(pendingPromptOrigins, sessionID)) <= Len(Get(idealOrigins, sessionID))


(***************************************************************************)
(* The running cost against the costs the stream carried                   *)
(***************************************************************************)

\* C40: under stream events only, the running cost of a session is at most
\* the sum, over its assistant message ids, of the largest cumulative cost a
\* message.updated event carried for the id.
C40_RunningCostWithinObserved ==
    \A sessionID \in SessionIds :
        SessionCost(session_cost, sessionID)
            <= SumOver(MessageIdsOf(sessionID) \cap DOMAIN observedCost, observedCost)

====
